---- MODULE Spec2Model ----
(***************************************************************************)
(* A model of protonhax (hexqnt/protonhax): the escape codec and the       *)
(* env-file store (src/src/shell.rs, src/src/env_store.rs), the command    *)
(* classifier of handle_init, the selector resolver, the handlers, the     *)
(* lister (collect_running_apps) and handle_doctor (src/src/handlers.rs).  *)
(*                                                                         *)
(* Text is a sequence of one-character strings, so that every character    *)
(* test of the code (contains, starts_with, trim, find) is computed.       *)
(***************************************************************************)
EXTENDS Integers, Sequences, FiniteSets, TLC

\* ------------------------------------------------------------------ bounds

\* Longest text value drawn for the codec.
MaxLen == 4

\* Longest environment value drawn for the env file.
MaxValLen == 2

\* Most tokens in a command handed to init.
MaxTokens == 3

\* Longest token drawn for the assignment grammar.
MaxTokLen == 4

\* The latest time the clock reaches (seconds; it starts at 0).
MaxClock == 1

\* ------------------------------------------------------------------- state

\* The codec on one value: the value, its escaped form, what the decoder
\* returned, and how far the value has got.
VARIABLES value, escaped, decoded, codecStage

\* The env file of one environment: the environment, the file written from it,
\* what replaying the file gave, and how far it has got.
VARIABLES environ, envFile, loaded, storeStage

\* The classifier on one command: the command as given, the tokens after the
\* re-split, the classification, and how far it has got.
VARIABLES cmd, cmd_tokens, classified, classStage

\* is_env_assignment on one token.
VARIABLES token, isAssignment, assignStage

\* The runtime root (the directory `phd` of the handlers).
VARIABLES phd

\* The resolver on one selector: the selector, the outcome, and how far it
\* has got.
VARIABLES resolveSelector, resolved, resolveStage

\* The invocations of init and of run, cmd or exec, and the clock.
VARIABLES inits, tools, clock

\* An invocation that lists the contexts (ls, or a resolution by `latest` or
\* by name), one file read at a time; and an invocation of doctor.
VARIABLES lister, doctor

codecVars == <<value, escaped, decoded, codecStage>>
storeVars == <<environ, envFile, loaded, storeStage>>
classVars == <<cmd, cmd_tokens, classified, classStage>>
assignVars == <<token, isAssignment, assignStage>>
resolveVars == <<resolveSelector, resolved, resolveStage>>

sysVars == <<inits, tools, clock>>
readVars == <<lister, doctor>>

vars == <<codecVars, storeVars, classVars, assignVars, resolveVars, phd, sysVars, readVars>>

\* What an action of one part leaves alone.
exceptCodec == <<sysVars, storeVars, classVars, assignVars, resolveVars, phd, readVars>>
exceptStore == <<sysVars, codecVars, classVars, assignVars, resolveVars, phd, readVars>>
exceptClass == <<sysVars, codecVars, storeVars, assignVars, resolveVars, phd, readVars>>
exceptAssign == <<sysVars, codecVars, storeVars, classVars, resolveVars, phd, readVars>>
exceptResolve == <<codecVars, storeVars, classVars, assignVars, sysVars, readVars>>
exceptSystem == <<codecVars, storeVars, classVars, assignVars, resolveVars, readVars>>
exceptLister == <<codecVars, storeVars, classVars, assignVars, resolveVars, doctor>>
exceptDoctor == <<codecVars, storeVars, classVars, assignVars, resolveVars, sysVars, lister>>

\* ------------------------------------------------------------- characters

DQ == "\""
BS == "\\"
SQ == "'"
DOLLAR == "$"
\* The backtick: SANY reads no backtick inside a string.
BT == "<backtick>"
SP == " "
NL == "\n"
TAB == "\t"
CR == "\r"
EQ == "="

\* char::is_whitespace, on the characters the model draws.
IsWhitespace(c) == c \in {SP, NL, TAB, CR}

Contains(s, c) == \E i \in 1..Len(s) : s[i] = c

ContainsWhitespace(s) == \E i \in 1..Len(s) : IsWhitespace(s[i])

\* All texts over an alphabet, up to a length.
Texts(alphabet, n) == UNION {[1..k -> alphabet] : k \in 0..n}

\* ------------------------------------------------------------ escape codec

\* The body of the quoted form: a backslash before each of the four escaped characters.
RECURSIVE EscapeBody(_, _)
EscapeBody(s, i) ==
  IF i > Len(s) THEN <<>>
  ELSE (IF s[i] \in {BS, DQ, DOLLAR, BT} THEN <<BS, s[i]>> ELSE <<s[i]>>)
       \o EscapeBody(s, i + 1)

\* shell.rs: the values that get quoted.
NeedsQuoting(s) ==
  \/ ContainsWhitespace(s)
  \/ Contains(s, SQ)
  \/ Contains(s, BS)
  \/ Contains(s, DQ)
  \/ Contains(s, DOLLAR)

\* A shell_escape that quotes and forgets to escape.
shell_escape_unescaped(s) ==
  IF NeedsQuoting(s) THEN <<DQ>> \o s \o <<DQ>> ELSE s

shell_escape(s) ==
  IF NeedsQuoting(s) THEN <<DQ>> \o EscapeBody(s, 1) \o <<DQ>> ELSE s

\* The loop of un_shell_escape over the text between the quotes.
RECURSIVE UnescapeBody(_, _)
UnescapeBody(s, i) ==
  IF i > Len(s) THEN <<>>
  ELSE IF s[i] = BS
       THEN IF i + 1 <= Len(s)
            THEN (IF s[i + 1] \in {BS, DQ, DOLLAR, BT}
                  THEN <<s[i + 1]>>
                  ELSE <<BS, s[i + 1]>>)
                 \o UnescapeBody(s, i + 2)
            ELSE <<BS>>
       ELSE <<s[i]>> \o UnescapeBody(s, i + 1)

\* A returned text, or the panic of a slice whose start is past its end.
Returned(t) == [panicked |-> FALSE, text |-> t]
Panicked == [panicked |-> TRUE, text |-> <<>>]

StartsWithQuote(s) == Len(s) >= 1 /\ s[1] = DQ
EndsWithQuote(s) == Len(s) >= 1 /\ s[Len(s)] = DQ

\* &s[1..s.len() - 1] panics when 1 > s.len() - 1, i.e. for the one-character
\* text made of a double quote.
un_shell_escape(s) ==
  IF ~StartsWithQuote(s) \/ ~EndsWithQuote(s) THEN Returned(s)
  ELSE IF 1 > Len(s) - 1 THEN Panicked
  ELSE Returned(UnescapeBody(SubSeq(s, 2, Len(s) - 1), 1))

\* ------------------------------------------------------- state: the codec

CodecAlphabet == {"a", SP, SQ, DQ, BS, DOLLAR, BT}

CodecIdle ==
  /\ value = <<>>
  /\ escaped = <<>>
  /\ decoded = Returned(<<>>)
  /\ codecStage = "idle"

CodecInit ==
  /\ value \in Texts(CodecAlphabet, MaxLen)
  /\ escaped = <<>>
  /\ decoded = Returned(<<>>)
  /\ codecStage = "value"

\* escaped = shell_escape(value)
Escape ==
  /\ codecStage = "value"
  /\ escaped' = shell_escape(value)
  /\ codecStage' = "escaped"
  /\ UNCHANGED <<value, decoded>>
  /\ UNCHANGED exceptCodec

\* decoded = un_shell_escape(escaped)
Unescape ==
  /\ codecStage = "escaped"
  /\ decoded' = un_shell_escape(escaped)
  /\ codecStage' = "roundtrip"
  /\ UNCHANGED <<value, escaped>>
  /\ UNCHANGED exceptCodec

\* decoded = un_shell_escape(value): the decoder on a text that no encoder made.
UnescapeRaw ==
  /\ codecStage = "value"
  /\ decoded' = un_shell_escape(value)
  /\ codecStage' = "decoded"
  /\ UNCHANGED <<value, escaped>>
  /\ UNCHANGED exceptCodec

\* ------------------------------------------------------------ env store

\* "declare -x "
DeclarePrefix == <<"d", "e", "c", "l", "a", "r", "e", SP, "-", "x", SP>>

\* Option<T>: None, or Some(x).
None == <<>>
Some(x) == <<x>>
IsSome(o) == Len(o) = 1
Unwrap(o) == o[1]

\* handlers.rs write_env_file: one line per entry of env::vars(), in the order
\* `order` enumerates the names.
RECURSIVE EnvFileText(_, _, _)
EnvFileText(env, order, i) ==
  IF i > Len(order) THEN <<>>
  ELSE DeclarePrefix \o order[i] \o <<EQ>> \o shell_escape(env[order[i]]) \o <<NL>>
       \o EnvFileText(env, order, i + 1)

write_env_file(env, order) == EnvFileText(env, order, 1)

\* A line loses the carriage return that precedes its line feed.
StripCR(line) ==
  IF Len(line) >= 1 /\ line[Len(line)] = CR
  THEN SubSeq(line, 1, Len(line) - 1)
  ELSE line

\* The positions of the line feeds of s.
Breaks(s) == {i \in 1..Len(s) : s[i] = NL}

\* The k-th line feed of s.
BreakAt(s, k) == CHOOSE b \in Breaks(s) : Cardinality({j \in Breaks(s) : j <= b}) = k

\* str::lines(): the text split at line feeds, each line without the carriage
\* return before its line feed; a last line with no line feed is a line when
\* it is not empty.
Lines(s) ==
  LET n == Cardinality(Breaks(s))
      start(k) == IF k = 1 THEN 1 ELSE BreakAt(s, k - 1) + 1
      ended == [k \in 1..n |-> StripCR(SubSeq(s, start(k), BreakAt(s, k) - 1))]
      rest == SubSeq(s, start(n + 1), Len(s))
  IN IF rest = <<>> THEN ended ELSE Append(ended, rest)

RECURSIVE TrimStart(_)
TrimStart(s) ==
  IF Len(s) >= 1 /\ IsWhitespace(s[1]) THEN TrimStart(Tail(s)) ELSE s

RECURSIVE TrimEnd(_)
TrimEnd(s) ==
  IF Len(s) >= 1 /\ IsWhitespace(s[Len(s)])
  THEN TrimEnd(SubSeq(s, 1, Len(s) - 1))
  ELSE s

\* str::trim()
Trim(s) == TrimEnd(TrimStart(s))

StartsWith(s, p) == Len(s) >= Len(p) /\ SubSeq(s, 1, Len(p)) = p

\* str::strip_prefix
StripPrefix(s, p) ==
  IF StartsWith(s, p) THEN Some(SubSeq(s, Len(p) + 1, Len(s))) ELSE None

\* str::find(c): the first index of c (from 1), or 0.
Find(s, c) ==
  IF Contains(s, c) THEN CHOOSE i \in 1..Len(s) : s[i] = c /\ \A j \in 1..(i - 1) : s[j] # c
  ELSE 0

\* env_store.rs parse_export_line: Some(<<name, value_str>>) or None.
parse_export_line(line) ==
  LET rest == StripPrefix(Trim(line), DeclarePrefix) IN
  IF ~IsSome(rest) THEN None
  ELSE LET r == Unwrap(rest)
           eq_idx == Find(r, EQ)
       IN IF eq_idx = 0 THEN None
          ELSE Some(<<Trim(SubSeq(r, 1, eq_idx - 1)), Trim(SubSeq(r, eq_idx + 1, Len(r)))>>)

\* A process environment: a function from the names that are set to their values.
EmptyEnv == [n \in {} |-> <<>>]
EnvSet(env, name, val) ==
  [n \in DOMAIN env \cup {name} |-> IF n = name THEN val ELSE env[n]]

\* The outcome of replaying a file into an environment: the environment, or a panic.
Replayed(env) == [panicked |-> FALSE, env |-> env]
ReplayPanicked == [panicked |-> TRUE, env |-> EmptyEnv]

\* env_store.rs apply_env_content from line i on: each parsed line sets one
\* variable; std::env::set_var panics on an empty name, un_shell_escape on a
\* lone double quote.
RECURSIVE ApplyLines(_, _, _)
ApplyLines(lines, i, env) ==
  IF i > Len(lines) THEN Replayed(env)
  ELSE LET parsed == parse_export_line(lines[i]) IN
       IF ~IsSome(parsed) THEN ApplyLines(lines, i + 1, env)
       ELSE LET name == Unwrap(parsed)[1]
                val == un_shell_escape(Unwrap(parsed)[2])
            IN IF val.panicked \/ name = <<>> THEN ReplayPanicked
               ELSE ApplyLines(lines, i + 1, EnvSet(env, name, val.text))

apply_env_content(content, env) == ApplyLines(Lines(content), 1, env)

\* env_store.rs get_env_var: the value of the first line that sets `key`.
RECURSIVE GetFromLines(_, _, _)
GetFromLines(lines, i, key) ==
  IF i > Len(lines) THEN Returned(None)
  ELSE LET parsed == parse_export_line(lines[i]) IN
       IF IsSome(parsed) /\ Unwrap(parsed)[1] = key
       THEN LET val == un_shell_escape(Unwrap(parsed)[2]) IN
            IF val.panicked THEN Panicked ELSE Returned(Some(val.text))
       ELSE GetFromLines(lines, i + 1, key)

get_env_var(content, key) == GetFromLines(Lines(content), 1, key)

\* ------------------------------------------------------- state: the store

StoreNames == {<<"A">>, <<"B">>}

\* A value whose second line reads as an entry of its own.
InjectingValue == <<"a", NL>> \o DeclarePrefix \o <<"B", EQ, "a">>

StoreValues == Texts({"a", SP, NL, DQ}, MaxValLen) \cup {InjectingValue}

\* The enumerations of a set of names.
Orders(S) ==
  {o \in [1..Cardinality(S) -> S] : \A i, j \in 1..Cardinality(S) : i # j => o[i] # o[j]}

StoreIdle ==
  /\ environ = EmptyEnv
  /\ envFile = <<>>
  /\ loaded = Replayed(EmptyEnv)
  /\ storeStage = "idle"

StoreInit ==
  /\ \E S \in SUBSET StoreNames : environ \in [S -> StoreValues]
  /\ envFile = <<>>
  /\ loaded = Replayed(EmptyEnv)
  /\ storeStage = "environ"

\* create's env writer: envFile = the lines of environ, in some enumeration.
WriteEnvFile ==
  /\ storeStage = "environ"
  /\ \E order \in Orders(DOMAIN environ) : envFile' = write_env_file(environ, order)
  /\ storeStage' = "written"
  /\ UNCHANGED <<environ, loaded>>
  /\ UNCHANGED exceptStore

\* load_env: the file replayed into an empty environment.
LoadEnv ==
  /\ storeStage = "written"
  /\ loaded' = apply_env_content(envFile, EmptyEnv)
  /\ storeStage' = "loaded"
  /\ UNCHANGED <<environ, envFile>>
  /\ UNCHANGED exceptStore

\* ------------------------------------------------------- token classifier

AsciiLetters ==
  {"a", "b", "c", "d", "e", "f", "g", "h", "i", "j", "k", "l", "m",
   "n", "o", "p", "q", "r", "s", "t", "u", "v", "w", "x", "y", "z",
   "A", "B", "C", "D", "E", "F", "G", "H", "I", "J", "K", "L", "M",
   "N", "O", "P", "Q", "R", "S", "T", "U", "V", "W", "X", "Y", "Z"}

AsciiDigits == {"0", "1", "2", "3", "4", "5", "6", "7", "8", "9"}

\* c == '_' || c.is_ascii_alphabetic()
IsNameStart(c) == c = "_" \/ c \in AsciiLetters

\* c == '_' || c.is_ascii_alphanumeric()
IsNameChar(c) == c = "_" \/ c \in AsciiLetters \/ c \in AsciiDigits

\* The loop over the characters of the name after its first.
RECURSIVE RestIsName(_, _)
RestIsName(name, i) ==
  IF i > Len(name) THEN TRUE
  ELSE IF ~IsNameChar(name[i]) THEN FALSE
  ELSE RestIsName(name, i + 1)

\* An is_env_assignment that tests the first character like the others.
is_env_assignment_any_start(s) ==
  LET eq == Find(s, EQ) IN
  IF eq = 0 THEN FALSE
  ELSE LET name == SubSeq(s, 1, eq - 1) IN
       IF Len(name) = 0 THEN FALSE ELSE RestIsName(name, 1)

\* shell.rs is_env_assignment
is_env_assignment(s) ==
  LET eq == Find(s, EQ) IN
  IF eq = 0 THEN FALSE
  ELSE LET name == SubSeq(s, 1, eq - 1) IN
       IF Len(name) = 0 \/ ~IsNameStart(name[1]) THEN FALSE
       ELSE RestIsName(name, 2)

\* str::contains(&str)
ContainsSub(s, needle) ==
  \E i \in 1..(Len(s) - Len(needle) + 1) : SubSeq(s, i, i + Len(needle) - 1) = needle

\* "/proton"
ProtonNeedle == <<"/", "p", "r", "o", "t", "o", "n">>

\* The word splitter called on a one-token command (the shell_words crate):
\* the POSIX rules for quotes, backslashes, comments and the delimiters
\* space, tab and line feed. Its result: the words, or an error on an
\* unclosed quote.
SplitOk(words) == [ok |-> TRUE, words |-> words]
SplitErr == [ok |-> FALSE, words |-> <<>>]

IsDelimiter(c) == c \in {SP, TAB, NL}

\* One character read in state st: the next state, the characters pushed on
\* the current word, and whether the word is pushed on the words first.
Move(st, push, flush) == [st |-> st, push |-> push, flush |-> flush]

SplitStep(st, c) ==
  CASE st = "Delimiter" ->
         IF c = SQ THEN Move("SingleQuoted", <<>>, FALSE)
         ELSE IF c = DQ THEN Move("DoubleQuoted", <<>>, FALSE)
         ELSE IF c = BS THEN Move("Backslash", <<>>, FALSE)
         ELSE IF IsDelimiter(c) THEN Move("Delimiter", <<>>, FALSE)
         ELSE IF c = "#" THEN Move("Comment", <<>>, FALSE)
         ELSE Move("Unquoted", <<c>>, FALSE)
    [] st = "Backslash" ->
         IF c = NL THEN Move("Delimiter", <<>>, FALSE)
         ELSE Move("Unquoted", <<c>>, FALSE)
    [] st = "Unquoted" ->
         IF c = SQ THEN Move("SingleQuoted", <<>>, FALSE)
         ELSE IF c = DQ THEN Move("DoubleQuoted", <<>>, FALSE)
         ELSE IF c = BS THEN Move("UnquotedBackslash", <<>>, FALSE)
         ELSE IF IsDelimiter(c) THEN Move("Delimiter", <<>>, TRUE)
         ELSE Move("Unquoted", <<c>>, FALSE)
    [] st = "UnquotedBackslash" ->
         IF c = NL THEN Move("Unquoted", <<>>, FALSE)
         ELSE Move("Unquoted", <<c>>, FALSE)
    [] st = "SingleQuoted" ->
         IF c = SQ THEN Move("Unquoted", <<>>, FALSE)
         ELSE Move("SingleQuoted", <<c>>, FALSE)
    [] st = "DoubleQuoted" ->
         IF c = DQ THEN Move("Unquoted", <<>>, FALSE)
         ELSE IF c = BS THEN Move("DoubleQuotedBackslash", <<>>, FALSE)
         ELSE Move("DoubleQuoted", <<c>>, FALSE)
    [] st = "DoubleQuotedBackslash" ->
         IF c = NL THEN Move("DoubleQuoted", <<>>, FALSE)
         ELSE IF c \in {DOLLAR, BT, DQ, BS} THEN Move("DoubleQuoted", <<c>>, FALSE)
         ELSE Move("DoubleQuoted", <<BS, c>>, FALSE)
    [] st = "Comment" ->
         IF c = NL THEN Move("Delimiter", <<>>, FALSE)
         ELSE Move("Comment", <<>>, FALSE)

\* The end of the input read in state st.
SplitEnd(st, word, words) ==
  CASE st \in {"Delimiter", "Comment"} -> SplitOk(words)
    [] st \in {"Backslash", "UnquotedBackslash"} -> SplitOk(Append(words, Append(word, BS)))
    [] st = "Unquoted" -> SplitOk(Append(words, word))
    [] st \in {"SingleQuoted", "DoubleQuoted", "DoubleQuotedBackslash"} -> SplitErr

\* The splitter's state after one more character.
SplitAdvance(state, c) ==
  LET move == SplitStep(state.st, c) IN
  [st |-> move.st,
   word |-> IF move.flush THEN <<>> ELSE state.word \o move.push,
   words |-> IF move.flush THEN Append(state.words, state.word) ELSE state.words]

SplitStates ==
  {"Delimiter", "Backslash", "Unquoted", "UnquotedBackslash", "SingleQuoted",
   "DoubleQuoted", "DoubleQuotedBackslash", "Comment"}

\* The splitter's state after the characters lo..hi of s, read from `state`:
\* the loop over the characters, halved, with `state` evaluated on entry, so
\* that the evaluation stays shallow.
RECURSIVE SplitRun(_, _, _, _)
SplitRun(s, lo, hi, state) ==
  IF lo > hi \/ state.st \notin SplitStates THEN state
  ELSE IF lo = hi THEN SplitAdvance(state, s[lo])
  ELSE LET mid == (lo + hi) \div 2
           half == SplitRun(s, lo, mid, state)
       IN SplitRun(s, mid + 1, hi, half)

shell_words_split(s) ==
  LET final == SplitRun(s, 1, Len(s), [st |-> "Delimiter", word |-> <<>>, words |-> <<>>])
  IN SplitEnd(final.st, final.word, final.words)

\* A re-split of any command whose first token holds whitespace.
NeedsResplitFirstOnly(c) == Len(c) >= 1 /\ ContainsWhitespace(c[1])

\* handle_init: cmd.len() == 1 && cmd[0].contains(char::is_whitespace)
NeedsResplit(c) == Len(c) = 1 /\ ContainsWhitespace(c[1])

\* A position that strips every token up to the last assignment (rposition):
\* the index after the last assignment, or 0 when that is past the end.
AfterLastAssignment(tokens, i) ==
  LET last == IF \E k \in 1..Len(tokens) : is_env_assignment(tokens[k])
              THEN CHOOSE k \in 1..Len(tokens) :
                     /\ is_env_assignment(tokens[k])
                     /\ \A j \in (k + 1)..Len(tokens) : ~is_env_assignment(tokens[j])
              ELSE 0
  IN IF last + 1 > Len(tokens) THEN 0 ELSE last + 1

\* iter().position(|arg| !is_env_assignment(arg)) from index i: the index of
\* the first token that is no assignment, or 0.
RECURSIVE FirstCommandFrom(_, _)
FirstCommandFrom(tokens, i) ==
  IF i > Len(tokens) THEN 0
  ELSE IF ~is_env_assignment(tokens[i]) THEN i
  ELSE FirstCommandFrom(tokens, i + 1)

\* A search for the proton path that also reads the stripped assignments.
FindProtonInAll(tokens, i) ==
  IF \E k \in 1..Len(tokens) : ContainsSub(tokens[k], ProtonNeedle)
  THEN Some(tokens[CHOOSE k \in 1..Len(tokens) :
                     /\ ContainsSub(tokens[k], ProtonNeedle)
                     /\ \A j \in 1..(k - 1) : ~ContainsSub(tokens[j], ProtonNeedle)])
  ELSE None

\* real_cmd.iter().find(|arg| arg.contains("/proton")), where the real command
\* is tokens[i..].
RECURSIVE FindProton(_, _)
FindProton(tokens, i) ==
  IF i > Len(tokens) THEN None
  ELSE IF ContainsSub(tokens[i], ProtonNeedle) THEN Some(tokens[i])
  ELSE FindProton(tokens, i + 1)

\* str::split_once('='): <<name, value>> of an assignment token.
SplitOnce(tok) ==
  LET eq == Find(tok, EQ) IN
  <<SubSeq(tok, 1, eq - 1), SubSeq(tok, eq + 1, Len(tok))>>

\* What classification gives: the kind (Ok or the parse error), the stripped
\* assignment tokens, the real argv and the executable path.
Classified(kind, assignments, real_cmd, proton_path) ==
  [kind |-> kind, assignments |-> assignments, real_cmd |-> real_cmd,
   proton_path |-> proton_path]

\* handle_init, lines 61-81: the boundary, then the executable.
ClassifyTokens(tokens) ==
  LET cmd_start_index == FirstCommandFrom(tokens, 1) IN
  IF cmd_start_index = 0 THEN Classified("NoCommand", <<>>, <<>>, <<>>)
  ELSE LET assignments == SubSeq(tokens, 1, cmd_start_index - 1)
           real_cmd == SubSeq(tokens, cmd_start_index, Len(tokens))
           proton_path == FindProton(tokens, cmd_start_index)
       IN IF ~IsSome(proton_path)
          THEN Classified("NoExecutable", assignments, real_cmd, <<>>)
          ELSE Classified("Ok", assignments, real_cmd, Unwrap(proton_path))

\* handle_init, lines 44-81, on a command as given on the command line.
ClassifyCommand(c) ==
  IF NeedsResplit(c)
  THEN LET split == shell_words_split(c[1]) IN
       IF split.ok THEN ClassifyTokens(split.words)
       ELSE Classified("Malformed", <<>>, <<>>, <<>>)
  ELSE ClassifyTokens(c)

\* --------------------------------------------------- state: the classifier

T_FOO == <<"F", "O", "O", EQ, "1">>
T_XPROTON == <<"X", EQ, "/", "p", "r", "o", "t", "o", "n">>
T_BADNAME == <<"1", "F", EQ, "1">>
T_PROTON == <<"/", "o", "p", "t", "/", "p", "r", "o", "t", "o", "n">>
T_RUN == <<"w", "a", "i", "t", "f", "o", "r", "e", "x", "i", "t", "a", "n", "d", "r", "u", "n">>
T_GAME == <<"g", "a", "m", "e", ".", "e", "x", "e">>

\* One-token commands, as the launcher may hand them over.
S_LINE == T_FOO \o <<SP>> \o T_PROTON \o <<SP>> \o T_RUN \o <<SP>> \o T_GAME
S_QUOTED == <<SQ>> \o T_PROTON \o <<SP>> \o T_GAME \o <<SQ>>
S_DQVALUE == <<"A", EQ, DQ, "b", SP, BS, DQ, DQ, TAB>> \o T_PROTON
S_ASSIGNS == T_FOO \o <<SP>> \o T_XPROTON
S_BLANK == <<SP, SP>>
S_UNCLOSED == <<DQ>> \o T_PROTON \o <<SP>> \o T_GAME
S_CR == T_PROTON \o <<CR>>

ClassifyPool ==
  {T_FOO, T_XPROTON, T_BADNAME, T_PROTON, T_RUN, T_GAME,
   S_LINE, S_QUOTED, S_DQVALUE, S_ASSIGNS, S_BLANK, S_UNCLOSED, S_CR}

Unclassified == Classified("None", <<>>, <<>>, <<>>)

ClassIdle ==
  /\ cmd = <<>>
  /\ cmd_tokens = <<>>
  /\ classified = Unclassified
  /\ classStage = "idle"

\* clap hands init at least one token.
ClassInit ==
  /\ cmd \in UNION {[1..k -> ClassifyPool] : k \in 1..MaxTokens}
  /\ cmd_tokens = <<>>
  /\ classified = Unclassified
  /\ classStage = "cmd"

\* Lines 44-59: the command is re-split, and the split fails or gives the tokens.
ResplitMalformed ==
  /\ classStage = "cmd"
  /\ NeedsResplit(cmd)
  /\ ~shell_words_split(cmd[1]).ok
  /\ classified' = Classified("Malformed", <<>>, <<>>, <<>>)
  /\ classStage' = "done"
  /\ UNCHANGED <<cmd, cmd_tokens>>
  /\ UNCHANGED exceptClass

Resplit ==
  /\ classStage = "cmd"
  /\ NeedsResplit(cmd)
  /\ shell_words_split(cmd[1]).ok
  /\ cmd_tokens' = shell_words_split(cmd[1]).words
  /\ classStage' = "tokens"
  /\ UNCHANGED <<cmd, classified>>
  /\ UNCHANGED exceptClass

\* Lines 57-59: the command is taken as given.
TakeAsGiven ==
  /\ classStage = "cmd"
  /\ ~NeedsResplit(cmd)
  /\ cmd_tokens' = cmd
  /\ classStage' = "tokens"
  /\ UNCHANGED <<cmd, classified>>
  /\ UNCHANGED exceptClass

\* Lines 61-81.
Classify ==
  /\ classStage = "tokens"
  /\ classified' = ClassifyTokens(cmd_tokens)
  /\ classStage' = "done"
  /\ UNCHANGED <<cmd, cmd_tokens>>
  /\ UNCHANGED exceptClass

\* ------------------------------------------- state: the assignment grammar

AssignAlphabet == {"A", "z", "1", "_", EQ, "-"}

AssignExamples ==
  {T_FOO, T_BADNAME, <<"_", "A", "1", EQ, "1">>, <<"1", "F", "O", "O", EQ, "1">>,
   <<"F", "O", "O", "-", "B", "A", "R", EQ, "1">>, <<EQ, "1">>, <<"F", "O", "O">>}

AssignIdle ==
  /\ token = <<>>
  /\ isAssignment = FALSE
  /\ assignStage = "idle"

AssignInit ==
  /\ token \in Texts(AssignAlphabet, MaxTokLen) \cup AssignExamples
  /\ isAssignment = FALSE
  /\ assignStage = "token"

\* isAssignment = is_env_assignment(token)
TestAssignment ==
  /\ assignStage = "token"
  /\ isAssignment' = is_env_assignment(token)
  /\ assignStage' = "tested"
  /\ UNCHANGED token
  /\ UNCHANGED exceptAssign

\* ------------------------------------------------------------ text and paths

Digits == <<"0", "1", "2", "3", "4", "5", "6", "7", "8", "9">>

DigitValue(c) == CHOOSE d \in 0..9 : Digits[d + 1] = c

\* The value of the first n characters of a text of digits.
RECURSIVE DecimalValue(_, _)
DecimalValue(t, n) ==
  IF n = 0 THEN 0 ELSE DecimalValue(t, n - 1) * 10 + DigitValue(t[n])

\* str::parse::<u64>: an optional plus sign, then one digit or more. The texts
\* drawn hold a few digits, so the overflow error of the parser is not drawn.
parse_u64(t) ==
  LET digits == IF Len(t) >= 1 /\ t[1] = "+" THEN Tail(t) ELSE t IN
  IF digits = <<>> \/ \E i \in 1..Len(digits) : digits[i] \notin AsciiDigits
  THEN None
  ELSE Some(DecimalValue(digits, Len(digits)))

\* u64::to_string
RECURSIVE ToDecimal(_)
ToDecimal(n) ==
  IF n < 10 THEN <<Digits[n + 1]>>
  ELSE ToDecimal(n \div 10) \o <<Digits[(n % 10) + 1]>>

UpperCase ==
  <<"A", "B", "C", "D", "E", "F", "G", "H", "I", "J", "K", "L", "M",
    "N", "O", "P", "Q", "R", "S", "T", "U", "V", "W", "X", "Y", "Z">>

LowerCase ==
  <<"a", "b", "c", "d", "e", "f", "g", "h", "i", "j", "k", "l", "m",
    "n", "o", "p", "q", "r", "s", "t", "u", "v", "w", "x", "y", "z">>

\* char::to_ascii_lowercase
ToLowerChar(c) ==
  IF \E k \in 1..26 : UpperCase[k] = c
  THEN LowerCase[CHOOSE k \in 1..26 : UpperCase[k] = c]
  ELSE c

\* str::to_lowercase, on the characters the model draws.
ToLower(t) == [i \in 1..Len(t) |-> ToLowerChar(t[i])]

\* "latest"
LatestWord == <<"l", "a", "t", "e", "s", "t">>

eq_ignore_ascii_case(a, b) == ToLower(a) = ToLower(b)

\* A search that tells the letter cases apart.
contains_case_sensitive(text, query) == ContainsSub(text, query)

\* handlers.rs contains_case_insensitive
contains_case_insensitive(text, query) == ContainsSub(ToLower(text), ToLower(query))

\* The characters of the model in the order of their codes.
CodeOrder ==
  <<TAB, NL, CR, SP, DQ, DOLLAR, SQ, "+", "-", ".", "/">> \o Digits \o <<EQ>>
  \o UpperCase \o <<BS, "_", BT>> \o LowerCase \o <<"{", "}">>

CharCode(c) == CHOOSE k \in 1..Len(CodeOrder) : CodeOrder[k] = c

\* String::cmp: a < b, byte by byte.
TextLess(a, b) ==
  \E i \in 1..(Len(a) + 1) :
    /\ i <= Len(b)
    /\ \A j \in 1..(i - 1) : a[j] = b[j]
    /\ i > Len(a) \/ CharCode(a[i]) < CharCode(b[i])

\* sort_by over a set of distinct texts.
SortTexts(S) ==
  [k \in 1..Cardinality(S) |->
     CHOOSE a \in S : Cardinality({b \in S : b = a \/ TextLess(b, a)}) = k]

\* The positions of the character c in s, and the k-th of them.
SepsOf(s, c) == {i \in 1..Len(s) : s[i] = c}
SepAt(s, c, k) ==
  CHOOSE b \in SepsOf(s, c) : Cardinality({j \in SepsOf(s, c) : j <= b}) = k

\* str::split(c): the pieces between the occurrences of c, empty ones included.
Split(s, c) ==
  LET n == Cardinality(SepsOf(s, c))
      start(k) == IF k = 1 THEN 1 ELSE SepAt(s, c, k - 1) + 1
      finish(k) == IF k = n + 1 THEN Len(s) ELSE SepAt(s, c, k) - 1
  IN [k \in 1..(n + 1) |-> SubSeq(s, start(k), finish(k))]

SLASH == "/"
DOT == "."

IsAbsolute(p) == Len(p) >= 1 /\ p[1] = SLASH

NotEmptyText(t) == t # <<>>
NotCurDir(t) == t # <<>> /\ t # <<DOT>>

\* Path::components, the root apart: a repeated or trailing separator and a
\* `.` that is not the first component of a relative path give no component.
Components(p) ==
  LET pieces == SelectSeq(Split(p, SLASH), NotEmptyText)
      inner == SelectSeq(pieces, NotCurDir)
  IN IF ~IsAbsolute(p) /\ Len(pieces) >= 1 /\ pieces[1] = <<DOT>>
     THEN <<(<<DOT>>)>> \o SelectSeq(Tail(pieces), NotCurDir)
     ELSE inner

RECURSIVE JoinComponents(_, _)
JoinComponents(comps, i) ==
  IF i > Len(comps) THEN <<>>
  ELSE comps[i] \o (IF i < Len(comps) THEN <<SLASH>> ELSE <<>>)
       \o JoinComponents(comps, i + 1)

PathOf(absolute, comps) ==
  (IF absolute THEN <<SLASH>> ELSE <<>>) \o JoinComponents(comps, 1)

\* Path::parent: the path without its last component; None for the root and
\* for the empty path.
Parent(p) ==
  LET comps == Components(p) IN
  IF comps = <<>> THEN None
  ELSE Some(PathOf(IsAbsolute(p), SubSeq(comps, 1, Len(comps) - 1)))

\* Path::join: an absolute path replaces the base.
Join(base, name) ==
  IF IsAbsolute(name) THEN name
  ELSE IF base = <<>> THEN name
  ELSE IF base[Len(base)] = SLASH THEN base \o name
  ELSE base \o <<SLASH>> \o name

\* ------------------------------------------------------------ the file tree

\* runtime.rs runtime_root: $XDG_RUNTIME_DIR/protonhax, with XDG_RUNTIME_DIR=/run.
RunDirName == <<"r", "u", "n">>
RootName == <<"p", "r", "o", "t", "o", "n", "h", "a", "x">>
RuntimeRoot == <<SLASH>> \o RunDirName \o <<SLASH>> \o RootName

\* The Steam library of the model: /s, with the compat data of an app under
\* /s/c/<appid> and its manifest at /s/appmanifest_<appid>.acf.
LibraryName == <<"s">>
CompatName == <<"c">>
CompatPathOf(appid) ==
  <<SLASH>> \o LibraryName \o <<SLASH>> \o CompatName \o <<SLASH>> \o appid

ID10 == <<"1", "0">>
ID20 == <<"2", "0">>
ID7 == <<"7">>

F_STARTED_AT == <<"s", "t", "a", "r", "t", "e", "d", "_", "a", "t">>
F_EXE == <<"e", "x", "e">>
F_PFX == <<"p", "f", "x">>
F_ENV == <<"e", "n", "v">>

\* A context directory: each of its files is None (no such file) or
\* Some(content).
Context(started_at, exe, pfx, env) ==
  [started_at |-> started_at, exe |-> exe, pfx |-> pfx, env |-> env]

EmptyContext == Context(None, None, None, None)

\* The runtime root: whether it exists, and its subdirectories by name.
NoDirs == [a \in {} |-> EmptyContext]
MissingRoot == [exists |-> FALSE, dirs |-> NoDirs]
EmptyRoot == [exists |-> TRUE, dirs |-> NoDirs]

\* The directories outside the runtime root, each as the names from / down.
\* The compat data of app 10 holds its prefix, the compat data of app 20 holds
\* none yet, and app 7 has no compat data.
OutsideDirs ==
  {<<>>, <<RunDirName>>, <<LibraryName>>, <<LibraryName, CompatName>>,
   <<LibraryName, CompatName, ID10>>, <<LibraryName, CompatName, ID10, F_PFX>>,
   <<LibraryName, CompatName, ID20>>}

RootNames == <<RunDirName, RootName>>

\* Whether the names from / down lead to a directory.
DirExists(root, names) ==
  \/ names \in OutsideDirs
  \/ root.exists /\ names = RootNames
  \/ /\ root.exists
     /\ Len(names) = 3
     /\ SubSeq(names, 1, 2) = RootNames
     /\ names[3] \in DOMAIN root.dirs

\* Path resolution from component i on, standing in the directory `cur`:
\* `..` goes up, a name goes down into a directory that exists.
RECURSIVE WalkDirs(_, _, _, _)
WalkDirs(root, comps, i, cur) ==
  IF i > Len(comps) THEN Some(cur)
  ELSE IF comps[i] = <<DOT, DOT>>
       THEN WalkDirs(root, comps, i + 1,
                     IF cur = <<>> THEN cur ELSE SubSeq(cur, 1, Len(cur) - 1))
       ELSE IF DirExists(root, Append(cur, comps[i]))
            THEN WalkDirs(root, comps, i + 1, Append(cur, comps[i]))
            ELSE None

\* The directory an absolute path names, if it names one.
DirAt(root, path) == WalkDirs(root, Components(path), 1, <<>>)

\* Path::is_dir
is_dir(root, path) == IsAbsolute(path) /\ IsSome(DirAt(root, path))

\* fs::read_to_string(dir.join(file)) for a file of a context directory: the
\* content, or None when the read fails. Only context directories hold files.
ReadContextFile(root, dir, file) ==
  LET at == DirAt(root, dir) IN
  IF ~IsAbsolute(dir) \/ ~IsSome(at) THEN None
  ELSE LET names == Unwrap(at) IN
       IF ~(Len(names) = 3 /\ SubSeq(names, 1, 2) = RootNames) THEN None
       ELSE LET ctx == root.dirs[names[3]] IN
            IF file = F_STARTED_AT THEN ctx.started_at
            ELSE IF file = F_EXE THEN ctx.exe
            ELSE IF file = F_PFX THEN ctx.pfx
            ELSE IF file = F_ENV THEN ctx.env
            ELSE None

\* handlers.rs read_started_at
read_started_at(root, app_dir) ==
  LET val == ReadContextFile(root, app_dir, F_STARTED_AT) IN
  IF ~IsSome(val) THEN None ELSE parse_u64(Trim(Unwrap(val)))

\* ------------------------------------------------------------ app metadata

N_STEAMAPPID == <<"S", "t", "e", "a", "m", "A", "p", "p", "I", "d">>
N_COMPAT ==
  <<"S", "T", "E", "A", "M", "_", "C", "O", "M", "P", "A", "T", "_",
    "D", "A", "T", "A", "_", "P", "A", "T", "H">>

K_NAME == <<"n", "a", "m", "e">>
K_INSTALLDIR == <<"i", "n", "s", "t", "a", "l", "l", "d", "i", "r">>
ManifestPrefix == <<"a", "p", "p", "m", "a", "n", "i", "f", "e", "s", "t", "_">>
ManifestSuffix == <<".", "a", "c", "f">>
CommonName == <<"c", "o", "m", "m", "o", "n">>

\* steam.rs parse_acf_line: the first two quoted tokens of the line.
parse_acf_line(line) ==
  LET pieces == Split(Trim(line), DQ)
      trimmed == [k \in 1..Len(pieces) |-> Trim(pieces[k])]
      tokens == SelectSeq(trimmed, NotEmptyText)
  IN IF Len(tokens) < 2 THEN None ELSE Some(<<tokens[1], tokens[2]>>)

ManifestInfo(name, installdir) == [name |-> name, installdir |-> installdir]

\* steam.rs parse_manifest_info from line i on.
RECURSIVE ManifestFrom(_, _, _)
ManifestFrom(lines, i, info) ==
  IF i > Len(lines) \/ (IsSome(info.name) /\ IsSome(info.installdir)) THEN info
  ELSE LET kv == parse_acf_line(lines[i]) IN
       IF ~IsSome(kv) THEN ManifestFrom(lines, i + 1, info)
       ELSE LET key == Unwrap(kv)[1]
                val == Unwrap(kv)[2]
            IN ManifestFrom(lines, i + 1,
                 IF key = K_NAME THEN ManifestInfo(Some(val), info.installdir)
                 ELSE IF key = K_INSTALLDIR THEN ManifestInfo(info.name, Some(val))
                 ELSE info)

parse_manifest_info(content) == ManifestFrom(Lines(content), 1, ManifestInfo(None, None))

AcfLine(key, val) ==
  <<TAB, DQ>> \o key \o <<DQ, TAB, TAB, DQ>> \o val \o <<DQ, NL>>

AcfHead == <<DQ, "A", "p", "p", "S", "t", "a", "t", "e", DQ, NL, "{", NL>>

NAME_GUN_A == <<"G", "u", "n", SP, "A">>
NAME_GUN_B == <<"G", "u", "n", SP, "B">>

ManifestName(appid) == ManifestPrefix \o appid \o ManifestSuffix

\* The manifests of the library: two apps with names, one without.
SteamFiles ==
  (<<LibraryName, ManifestName(ID10)>> :>
     (AcfHead \o AcfLine(K_NAME, NAME_GUN_A) \o AcfLine(K_INSTALLDIR, <<"G", "A">>) \o <<"}", NL>>))
  @@ (<<LibraryName, ManifestName(ID20)>> :>
     (AcfHead \o AcfLine(K_INSTALLDIR, <<"G", "B">>) \o AcfLine(K_NAME, NAME_GUN_B) \o <<"}", NL>>))
  @@ (<<LibraryName, ManifestName(ID7)>> :>
     (AcfHead \o AcfLine(K_INSTALLDIR, <<"O">>) \o <<"}", NL>>))

\* fs::read_to_string of a manifest path.
ReadManifest(path) ==
  IF IsAbsolute(path) /\ Components(path) \in DOMAIN SteamFiles
  THEN Some(SteamFiles[Components(path)])
  ELSE None

\* steam.rs steamapps_path_from_compat
steamapps_path_from_compat(compat_data) ==
  LET up == Parent(compat_data) IN
  IF ~IsSome(up) THEN None ELSE Parent(Unwrap(up))

AppMeta(name, install_path) == [name |-> name, install_path |-> install_path]
DefaultMeta == AppMeta(None, None)
MetaOf(meta) == [panicked |-> FALSE, meta |-> meta]
MetaPanicked == [panicked |-> TRUE, meta |-> DefaultMeta]

\* steam.rs resolve_app_meta, from the manifest on: the name of the manifest
\* and the install path under <steamapps>/common.
MetaFromManifest(steamapps_path, manifest) ==
  MetaOf(AppMeta(manifest.name,
                 IF IsSome(manifest.installdir)
                 THEN Some(Join(Join(steamapps_path, CommonName), Unwrap(manifest.installdir)))
                 ELSE None))

MetaFromContent(steamapps_path, manifest_content) ==
  IF ~IsSome(manifest_content) THEN MetaOf(DefaultMeta)
  ELSE MetaFromManifest(steamapps_path, parse_manifest_info(Unwrap(manifest_content)))

\* steam.rs resolve_app_meta, from the steamapps path on.
MetaFromSteamapps(steamapps_path, appid) ==
  IF ~IsSome(steamapps_path) THEN MetaOf(DefaultMeta)
  ELSE MetaFromContent(Unwrap(steamapps_path),
                       ReadManifest(Join(Unwrap(steamapps_path), ManifestName(appid))))

\* steam.rs resolve_app_meta, from the compat data path on.
MetaFromCompat(compat_data, appid) ==
  IF compat_data.panicked THEN MetaPanicked
  ELSE IF ~IsSome(compat_data.text) THEN MetaOf(DefaultMeta)
  ELSE MetaFromSteamapps(steamapps_path_from_compat(Unwrap(compat_data.text)), appid)

\* steam.rs resolve_app_meta, from the content of the env file on.
MetaFromEnv(env_content, appid) ==
  IF ~IsSome(env_content) THEN MetaOf(DefaultMeta)
  ELSE MetaFromCompat(get_env_var(Unwrap(env_content), N_COMPAT), appid)

\* steam.rs resolve_app_meta: the name and install path of the app of a
\* context, as far as its env file and its manifest give them.
resolve_app_meta(root, app_dir, appid) ==
  MetaFromEnv(ReadContextFile(root, app_dir, F_ENV), appid)

\* ------------------------------------------------------------ the resolver

RunningApp(appid, path, name, install_path, started_at) ==
  [appid |-> appid, path |-> path, name |-> name,
   install_path |-> install_path, started_at |-> started_at]

Collected(apps) == [panicked |-> FALSE, apps |-> apps]
CollectPanicked == [panicked |-> TRUE, apps |-> <<>>]

\* handlers.rs collect_running_apps, the body of the loop: the entry pushed
\* for one subdirectory.
AppEntry(appid, path, meta, started_at) ==
  [panicked |-> meta.panicked,
   app |-> RunningApp(appid, path, meta.meta.name, meta.meta.install_path, started_at)]

EntryOf(root, appid, path, with_meta) ==
  AppEntry(appid, path,
           IF with_meta THEN resolve_app_meta(root, path, appid) ELSE MetaOf(DefaultMeta),
           read_started_at(root, path))

CollectEntries(entries) ==
  IF \E k \in 1..Len(entries) : entries[k].panicked THEN CollectPanicked
  ELSE Collected([k \in 1..Len(entries) |-> entries[k].app])

CollectSorted(root, ids, with_meta) ==
  CollectEntries([k \in 1..Len(ids) |->
                    EntryOf(root, ids[k], Join(RuntimeRoot, ids[k]), with_meta)])

\* handlers.rs collect_running_apps: one entry per subdirectory of the root,
\* sorted by appid; no entry when the root does not exist.
collect_running_apps(root, with_meta) ==
  IF ~root.exists THEN Collected(<<>>)
  ELSE CollectSorted(root, SortTexts(DOMAIN root.dirs), with_meta)

\* The outcome of a resolution: a target, an exit of the process, or a panic.
TargetApp(appid, app_dir) ==
  [kind |-> "Ok", appid |-> appid, app_dir |-> app_dir, code |-> 0,
   error |-> "", matches |-> <<>>]

ResolveExit(error, matches) ==
  [kind |-> "Exit", appid |-> <<>>, app_dir |-> <<>>, code |-> 2,
   error |-> error, matches |-> matches]

ResolvePanicked ==
  [kind |-> "Panic", appid |-> <<>>, app_dir |-> <<>>, code |-> 101,
   error |-> "", matches |-> <<>>]

Unresolved ==
  [kind |-> "None", appid |-> <<>>, app_dir |-> <<>>, code |-> 0,
   error |-> "", matches |-> <<>>]

\* TargetApp { appid: app.appid.clone(), app_dir: app.path.clone() }
TargetOf(app) == TargetApp(app.appid, app.path)

\* The positions of the apps that have a started_at.
Timed(apps) == {k \in 1..Len(apps) : IsSome(apps[k].started_at)}

\* A resolver that takes the oldest context.
EarliestIndex(apps) ==
  CHOOSE k \in Timed(apps) :
    \A j \in Timed(apps) :
      \/ Unwrap(apps[j].started_at) > Unwrap(apps[k].started_at)
      \/ Unwrap(apps[j].started_at) = Unwrap(apps[k].started_at) /\ j <= k

\* Iterator::max_by_key over the apps that have a started_at: the position of
\* the greatest started_at, the last of them when several are equal.
LatestIndex(apps) ==
  CHOOSE k \in Timed(apps) :
    \A j \in Timed(apps) :
      \/ Unwrap(apps[j].started_at) < Unwrap(apps[k].started_at)
      \/ Unwrap(apps[j].started_at) = Unwrap(apps[k].started_at) /\ j <= k

\* A resolver that takes the first context when none has a started_at.
LatestOrFirst(apps) ==
  IF apps = <<>> THEN ResolveExit("NoneRunning", <<>>)
  ELSE IF Timed(apps) # {}
       THEN TargetOf(apps[LatestIndex(apps)])
       ELSE TargetOf(apps[1])

\* handlers.rs resolve_latest_app, on the collected apps.
LatestOf(apps) ==
  IF apps = <<>> THEN ResolveExit("NoneRunning", <<>>)
  ELSE IF Timed(apps) # {}
       THEN TargetOf(apps[LatestIndex(apps)])
       ELSE IF Len(apps) = 1 THEN TargetOf(apps[1])
       ELSE ResolveExit("Ambiguous", <<>>)

\* handlers.rs resolve_latest_app
resolve_latest_app(root) == LatestOf(collect_running_apps(root, FALSE).apps)

\* The positions of the apps whose name contains the query.
NameMatches(apps, query) ==
  {k \in 1..Len(apps) :
     IsSome(apps[k].name) /\ contains_case_insensitive(Unwrap(apps[k].name), query)}

\* The elements of a sequence at a set of positions, in order.
AtPositions(seq, P) ==
  [k \in 1..Cardinality(P) |->
     seq[CHOOSE p \in P : Cardinality({q \in P : q <= p}) = k]]

\* handlers.rs resolve_app_by_name, on the matches; an ambiguous query prints
\* every match (print_ambiguous_matches).
MatchOf(matches) ==
  IF Len(matches) = 1 THEN TargetOf(matches[1])
  ELSE IF Len(matches) = 0 THEN ResolveExit("NotFound", <<>>)
  ELSE ResolveExit("Ambiguous",
         [k \in 1..Len(matches) |-> <<matches[k].appid, Unwrap(matches[k].name)>>])

ByNameOf(collected, query) ==
  IF collected.panicked THEN ResolvePanicked
  ELSE MatchOf(AtPositions(collected.apps, NameMatches(collected.apps, query)))

\* handlers.rs resolve_app_by_name
resolve_app_by_name(root, query) == ByNameOf(collect_running_apps(root, TRUE), query)

\* A resolver that never takes the selector for a directory name.
resolve_by_name_only(root, selector) ==
  IF eq_ignore_ascii_case(selector, LatestWord) THEN resolve_latest_app(root)
  ELSE resolve_app_by_name(root, selector)

\* handlers.rs resolve_target_app
resolve_target_app(root, selector) ==
  IF eq_ignore_ascii_case(selector, LatestWord) THEN resolve_latest_app(root)
  ELSE LET app_dir == Join(RuntimeRoot, selector) IN
       IF is_dir(root, app_dir) THEN TargetApp(selector, app_dir)
       ELSE resolve_app_by_name(root, selector)

\* ------------------------------------------------- state: the resolver

ResolveAppIds == {ID10, ID20, ID7}

\* The env file init writes for an app of the library.
EnvOf(appid) ==
  write_env_file((N_COMPAT :> CompatPathOf(appid)) @@ (N_STEAMAPPID :> appid),
                 <<N_COMPAT, N_STEAMAPPID>>)

\* What a started_at file may hold: nothing parseable, or a time.
StartedPool ==
  {None, Some(<<"x">>), Some(<<"5">>), Some(<<"1", "0">>), Some(<<"2", "0">>),
   Some(<<SP, "2", "0", NL>>)}

EnvKinds == {"absent", "written"}

EnvOfKind(kind, appid) == IF kind = "written" THEN Some(EnvOf(appid)) ELSE None

SelectorPool ==
  {LatestWord, <<"L", "A", "T", "E", "S", "T">>, <<"L", "a", "t", "e", "s", "t">>,
   ID10, ID20, <<"g", "u", "n">>, <<"G", "U", "N", SP, "a">>, <<"z">>}

RootIdle == phd = MissingRoot

ResolveIdle ==
  /\ resolveSelector = <<>>
  /\ resolved = Unresolved
  /\ resolveStage = "idle"

\* The contexts found under the root: each with a started_at of the pool and
\* with or without its env file.
RootStates ==
  {MissingRoot}
  \cup UNION {
         {[exists |-> TRUE,
           dirs |-> [a \in S |->
                       Context(choice[a][1], Some(T_PROTON), Some(CompatPathOf(a)),
                               EnvOfKind(choice[a][2], a))]] :
            choice \in [S -> StartedPool \X EnvKinds]} :
         S \in SUBSET ResolveAppIds}

ResolveInit ==
  /\ phd \in RootStates
  /\ resolveSelector \in SelectorPool
  /\ resolved = Unresolved
  /\ resolveStage = "selector"

\* resolved = resolve_target_app(phd, resolveSelector)
Resolve ==
  /\ resolveStage = "selector"
  /\ resolved' = resolve_target_app(phd, resolveSelector)
  /\ resolveStage' = "resolved"
  /\ UNCHANGED <<phd, resolveSelector>>
  /\ UNCHANGED exceptResolve


\* ------------------------------------- state: the resolver on path selectors

\* An appid that is also a fragment of the names Gun A and Gun B.
ID_GUN == <<"g", "u", "n">>

SelectAppIds == {ID10, ID20, ID_GUN}

\* The env file init writes when the compat data path starts with a line
\* feed: its first line ends in a lone double quote.
BrokenEnv(appid) ==
  write_env_file((N_COMPAT :> <<NL>>) @@ (N_STEAMAPPID :> appid),
                 <<N_COMPAT, N_STEAMAPPID>>)

SelectKinds == {"absent", "written", "broken"}

SelectEnvOf(kind, appid) ==
  IF kind = "written" THEN Some(EnvOf(appid))
  ELSE IF kind = "broken" THEN Some(BrokenEnv(appid))
  ELSE None

\* The contexts found under the root: each started at 10, with an env file
\* that is absent, written, or broken.
SelectRoots ==
  {MissingRoot}
  \cup UNION {
         {[exists |-> TRUE,
           dirs |-> [a \in S |->
                       Context(Some(<<"1", "0">>), Some(T_PROTON),
                               Some(CompatPathOf(a)),
                               SelectEnvOf(kind[a], a))]] :
            kind \in [S -> SelectKinds]} :
         S \in SUBSET SelectAppIds}

\* Selectors that are paths: the empty text, `.`, `..`, a trailing separator,
\* a leading `./`, an absolute path, a way up and down again; and appids,
\* name fragments and `latest`.
PathSelectors ==
  {<<>>, <<DOT>>, <<DOT, DOT>>, ID10 \o <<SLASH>>, <<DOT, SLASH>> \o ID10,
   <<SLASH>> \o LibraryName, <<DOT, DOT, SLASH>> \o RootName,
   ID10, ID_GUN, <<"G", "U", "N">>, <<"z">>, LatestWord}

SelectInit ==
  /\ phd \in SelectRoots
  /\ resolveSelector \in PathSelectors
  /\ resolved = Unresolved
  /\ resolveStage = "selector"

\* ------------------------------------------------------------ the handlers

\* The invocations of init (Steam's launch hand-offs) and of run, cmd or exec.
InitProcs == {"i1", "i2"}
ToolProcs == {"t1"}

\* "run"
A_RUN == <<"r", "u", "n">>
\* "/pfx"
PfxSuffix == <<SLASH, "p", "f", "x">>
\* "/drive_c/windows/system32/cmd.exe"
CmdExeSuffix ==
  <<SLASH, "d", "r", "i", "v", "e", "_", "c", SLASH, "w", "i", "n", "d", "o", "w", "s",
    SLASH, "s", "y", "s", "t", "e", "m", "3", "2", SLASH, "c", "m", "d", ".", "e", "x", "e">>

\* A child process: the program, its arguments and its environment.
Child(program, args, env) ==
  [spawned |-> TRUE, program |-> program, args |-> args, env |-> env]
NoChild == [spawned |-> FALSE, program |-> <<>>, args |-> <<>>, env |-> EmptyEnv]

\* What a child leaves when it ends: Some(code), or None when a signal ended it.
ChildStatuses == {Some(0), Some(3), Some(255), None}

\* An exit code that is 0 when the child left none.
ExitCodeOrZero(status) == IF IsSome(status) THEN Unwrap(status) ELSE 0

\* status.code().unwrap_or(1)
ExitCodeOf(status) == IF IsSome(status) THEN Unwrap(status) ELSE 1

\* An invocation of init: where it stands, its command line and environment,
\* its appid, the classification of its command, its child, the status of the
\* child once it has ended, the outcome of the removal of its context, and its
\* exit code once it has ended (-1 before).
InitProc(pc, command, env) ==
  [pc |-> pc, cmd |-> command, env |-> env, appid |-> <<>>,
   classified |-> Unclassified, child |-> NoChild, status |-> None,
   removal |-> "none", code |-> -1]

OffInit == InitProc("off", <<>>, EmptyEnv)

\* An invocation of run, cmd or exec: where it stands, the subcommand, the
\* selector and the command given, its environment, the resolved target, its
\* child, the status of the child once it has ended, and its exit code.
ToolProc(pc, kind, sel, command, env) ==
  [pc |-> pc, kind |-> kind, selector |-> sel, cmd |-> command, env |-> env,
   target |-> Unresolved, child |-> NoChild, status |-> None, code |-> -1]

OffTool == ToolProc("off", "run", <<>>, <<>>, EmptyEnv)

\* process::exit(code); 1 for an io::Error returned from main, 101 for a panic.
Exited(me, code) == [me EXCEPT !.pc = "exited", !.code = code]

HasDir(root, name) == root.exists /\ name \in DOMAIN root.dirs

\* fs::create_dir_all(phd.join(name)), for a name that is one path component.
create_dir_all(root, name) ==
  [exists |-> TRUE,
   dirs |-> IF name \in DOMAIN root.dirs THEN root.dirs
            ELSE (name :> EmptyContext) @@ root.dirs]

\* A removal that leaves the directory where it is.
keep_dir_all(root, name) == root

\* fs::remove_dir_all(phd.join(name)), when it succeeds.
remove_dir_all(root, name) ==
  [root EXCEPT !.dirs = [a \in (DOMAIN root.dirs) \ {name} |-> root.dirs[a]]]

\* fs::write into a context directory that exists.
WriteStartedAt(root, name, content) ==
  [root EXCEPT !.dirs[name].started_at = Some(content)]
WriteExe(root, name, content) == [root EXCEPT !.dirs[name].exe = Some(content)]
WritePfx(root, name, content) == [root EXCEPT !.dirs[name].pfx = Some(content)]
WriteEnv(root, name, content) == [root EXCEPT !.dirs[name].env = Some(content)]

\* handlers.rs read_trimmed
read_trimmed(root, dir, file) ==
  LET content == ReadContextFile(root, dir, file) IN
  IF IsSome(content) THEN Some(Trim(Unwrap(content))) ELSE None

\* child.env(name, value) for each assignment, from assignment i on.
RECURSIVE ChildEnv(_, _, _)
ChildEnv(env, assignments, i) ==
  IF i > Len(assignments) THEN env
  ELSE ChildEnv(EnvSet(env, SplitOnce(assignments[i])[1], SplitOnce(assignments[i])[2]),
                assignments, i + 1)

\* ------------------------------------------------------------ handle_init

\* handle_init up to create_dir_all: an empty command exits with 1, a missing
\* SteamAppId panics, otherwise the context directory is created (or the
\* creation fails and main returns the error).
InitCreateDir(p) ==
  /\ inits[p].pc = "start"
  /\ LET me == inits[p] IN
     IF me.cmd = <<>>
     THEN inits' = [inits EXCEPT ![p] = Exited(me, 1)] /\ UNCHANGED phd
     ELSE IF N_STEAMAPPID \notin DOMAIN me.env
     THEN inits' = [inits EXCEPT ![p] = Exited(me, 101)] /\ UNCHANGED phd
     ELSE \/ /\ phd' = create_dir_all(phd, me.env[N_STEAMAPPID])
             /\ inits' = [inits EXCEPT ![p] =
                            [me EXCEPT !.pc = "dir_made", !.appid = me.env[N_STEAMAPPID]]]
          \/ /\ inits' = [inits EXCEPT ![p] =
                            Exited([me EXCEPT !.appid = me.env[N_STEAMAPPID]], 1)]
             /\ UNCHANGED phd
  /\ UNCHANGED <<tools, clock>>
  /\ UNCHANGED exceptSystem

\* fs::write(started_at, unix_now_secs()): the clock read is not before any
\* earlier read; the write fails when the directory is gone, or on its own.
InitWriteStartedAt(p) ==
  /\ inits[p].pc = "dir_made"
  /\ LET me == inits[p] IN
     \/ /\ HasDir(phd, me.appid)
        /\ \E now \in clock..MaxClock :
             /\ phd' = WriteStartedAt(phd, me.appid, ToDecimal(now))
             /\ clock' = now
        /\ inits' = [inits EXCEPT ![p] = [me EXCEPT !.pc = "started"]]
     \/ /\ inits' = [inits EXCEPT ![p] = Exited(me, 1)]
        /\ UNCHANGED <<phd, clock>>
  /\ UNCHANGED tools
  /\ UNCHANGED exceptSystem

\* What the classification makes of the invocation: on, or out with 1.
AfterClassify(me, result) ==
  IF result.kind = "Ok"
  THEN [me EXCEPT !.pc = "classified", !.classified = result]
  ELSE Exited([me EXCEPT !.classified = result], 1)

\* The re-split of a one-token command, the boundary and the executable.
InitClassifyCommand(p) ==
  /\ inits[p].pc = "started"
  /\ inits' = [inits EXCEPT ![p] = AfterClassify(inits[p], ClassifyCommand(inits[p].cmd))]
  /\ UNCHANGED <<phd, tools, clock>>
  /\ UNCHANGED exceptSystem

\* fs::write(exe, proton_path)
InitWriteExe(p) ==
  /\ inits[p].pc = "classified"
  /\ LET me == inits[p] IN
     \/ /\ HasDir(phd, me.appid)
        /\ phd' = WriteExe(phd, me.appid, me.classified.proton_path)
        /\ inits' = [inits EXCEPT ![p] = [me EXCEPT !.pc = "exe_written"]]
     \/ /\ inits' = [inits EXCEPT ![p] = Exited(me, 1)]
        /\ UNCHANGED phd
  /\ UNCHANGED <<tools, clock>>
  /\ UNCHANGED exceptSystem

\* fs::write(pfx, "{compat_data}/pfx"); a missing STEAM_COMPAT_DATA_PATH panics.
InitWritePfx(p) ==
  /\ inits[p].pc = "exe_written"
  /\ LET me == inits[p] IN
     IF N_COMPAT \notin DOMAIN me.env
     THEN inits' = [inits EXCEPT ![p] = Exited(me, 101)] /\ UNCHANGED phd
     ELSE \/ /\ HasDir(phd, me.appid)
             /\ phd' = WritePfx(phd, me.appid, me.env[N_COMPAT] \o PfxSuffix)
             /\ inits' = [inits EXCEPT ![p] = [me EXCEPT !.pc = "pfx_written"]]
          \/ /\ inits' = [inits EXCEPT ![p] = Exited(me, 1)]
             /\ UNCHANGED phd
  /\ UNCHANGED <<tools, clock>>
  /\ UNCHANGED exceptSystem

\* write_env_file: the environment, in the order env::vars() gives it.
InitWriteEnv(p) ==
  /\ inits[p].pc = "pfx_written"
  /\ LET me == inits[p] IN
     \/ /\ HasDir(phd, me.appid)
        /\ \E order \in Orders(DOMAIN me.env) :
             phd' = WriteEnv(phd, me.appid, write_env_file(me.env, order))
        /\ inits' = [inits EXCEPT ![p] = [me EXCEPT !.pc = "env_written"]]
     \/ /\ inits' = [inits EXCEPT ![p] = Exited(me, 1)]
        /\ UNCHANGED phd
  /\ UNCHANGED <<tools, clock>>
  /\ UNCHANGED exceptSystem

\* child.status(), the spawn: the real command with the assignments in its
\* environment; a spawn that fails returns the error from main.
InitSpawn(p) ==
  /\ inits[p].pc = "env_written"
  /\ LET me == inits[p] IN
     \/ inits' = [inits EXCEPT ![p] =
                    [me EXCEPT !.pc = "waiting",
                               !.child = Child(me.classified.real_cmd[1],
                                               Tail(me.classified.real_cmd),
                                               ChildEnv(me.env, me.classified.assignments, 1))]]
     \/ inits' = [inits EXCEPT ![p] = Exited(me, 1)]
  /\ UNCHANGED <<phd, tools, clock>>
  /\ UNCHANGED exceptSystem

\* The child of init ends, with an exit code or by a signal.
InitChildExit(p) ==
  /\ inits[p].pc = "waiting"
  /\ \E st \in ChildStatuses :
       inits' = [inits EXCEPT ![p] = [inits[p] EXCEPT !.pc = "child_exited", !.status = Some(st)]]
  /\ UNCHANGED <<phd, tools, clock>>
  /\ UNCHANGED exceptSystem

\* let _ = fs::remove_dir_all(&app_dir); process::exit(exit_code): the removal
\* succeeds or fails (it fails when the directory is gone), and init ends with
\* the exit code of the child either way.
InitTeardown(p) ==
  /\ inits[p].pc = "child_exited"
  /\ LET me == inits[p]
         exit_code == ExitCodeOf(Unwrap(me.status))
     IN \/ /\ HasDir(phd, me.appid)
           /\ phd' = remove_dir_all(phd, me.appid)
           /\ inits' = [inits EXCEPT ![p] = Exited([me EXCEPT !.removal = "ok"], exit_code)]
        \/ /\ inits' = [inits EXCEPT ![p] = Exited([me EXCEPT !.removal = "failed"], exit_code)]
           /\ UNCHANGED phd
  /\ UNCHANGED <<tools, clock>>
  /\ UNCHANGED exceptSystem

\* ------------------------------------------------- handle_run, _cmd, _exec

\* A resolution that sets SteamAppId from the selector before it fails.
SetAppIdThenResolve(me, result) ==
  IF result.kind = "Ok"
  THEN [me EXCEPT !.pc = "resolved", !.target = result]
  ELSE Exited([me EXCEPT !.target = result,
                         !.env = EnvSet(me.env, N_STEAMAPPID, me.selector)],
              result.code)

\* What the resolution makes of the invocation: on with the target, or out
\* with the exit code of the resolver.
AfterResolve(me, result) ==
  IF result.kind = "Ok"
  THEN [me EXCEPT !.pc = "resolved", !.target = result]
  ELSE Exited([me EXCEPT !.target = result], result.code)

\* run and exec leave with 1 on an empty command; then prepare_context
\* resolves the selector.
ToolResolve(p) ==
  /\ tools[p].pc = "start"
  /\ LET me == tools[p] IN
     IF me.kind \in {"run", "exec"} /\ me.cmd = <<>>
     THEN tools' = [tools EXCEPT ![p] = Exited(me, 1)]
     ELSE tools' = [tools EXCEPT ![p] = AfterResolve(me, resolve_target_app(phd, me.selector))]
  /\ UNCHANGED <<phd, inits, clock>>
  /\ UNCHANGED exceptSystem

\* What the replay of the env file makes of the invocation.
AfterReplay(me, replay) ==
  IF replay.panicked THEN Exited(me, 101)
  ELSE [me EXCEPT !.pc = "prepared", !.env = replay.env]

\* load_env: an env file that cannot be read returns the error from main.
AfterLoad(me, env_content) ==
  IF ~IsSome(env_content) THEN Exited(me, 1)
  ELSE AfterReplay(me, apply_env_content(Unwrap(env_content), me.env))

\* prepare_context after the resolution: set_env_var("SteamAppId"), load_env.
ToolLoadEnv(p) ==
  /\ tools[p].pc = "resolved"
  /\ tools' = [tools EXCEPT ![p] =
                 AfterLoad([tools[p] EXCEPT !.env = EnvSet(tools[p].env, N_STEAMAPPID,
                                                          tools[p].target.appid)],
                           ReadContextFile(phd, tools[p].target.app_dir, F_ENV))]
  /\ UNCHANGED <<phd, inits, clock>>
  /\ UNCHANGED exceptSystem

\* Command::new(..).status(), the spawn.
AfterSpawn(me, child, spawned) ==
  IF spawned THEN [me EXCEPT !.pc = "waiting", !.child = child] ELSE Exited(me, 1)

\* handle_run: <exe> run <cmd...>
RunChild(me, exe, spawned) ==
  IF ~IsSome(exe) THEN Exited(me, 1)
  ELSE AfterSpawn(me, Child(Unwrap(exe), <<A_RUN>> \o me.cmd, me.env), spawned)

\* handle_cmd: <exe> run <pfx>/drive_c/windows/system32/cmd.exe
CmdChild(me, exe, pfx, spawned) ==
  IF ~IsSome(exe) \/ ~IsSome(pfx) THEN Exited(me, 1)
  ELSE AfterSpawn(me, Child(Unwrap(exe), <<A_RUN, Unwrap(pfx) \o CmdExeSuffix>>, me.env),
                  spawned)

\* handle_exec: <cmd...>
ExecChild(me, spawned) ==
  AfterSpawn(me, Child(me.cmd[1], Tail(me.cmd), me.env), spawned)

\* The files read after prepare_context, and the spawn of the child.
ToolSpawn(p) ==
  /\ tools[p].pc = "prepared"
  /\ \E spawned \in BOOLEAN :
       LET me == tools[p]
           dir == me.target.app_dir
       IN tools' = [tools EXCEPT ![p] =
                      IF me.kind = "run"
                      THEN RunChild(me, read_trimmed(phd, dir, F_EXE), spawned)
                      ELSE IF me.kind = "cmd"
                      THEN CmdChild(me, read_trimmed(phd, dir, F_EXE),
                                    read_trimmed(phd, dir, F_PFX), spawned)
                      ELSE ExecChild(me, spawned)]
  /\ UNCHANGED <<phd, inits, clock>>
  /\ UNCHANGED exceptSystem

\* The child of run, cmd or exec ends.
ToolChildExit(p) ==
  /\ tools[p].pc = "waiting"
  /\ \E st \in ChildStatuses :
       tools' = [tools EXCEPT ![p] = [tools[p] EXCEPT !.pc = "child_exited", !.status = Some(st)]]
  /\ UNCHANGED <<phd, inits, clock>>
  /\ UNCHANGED exceptSystem

\* process::exit(status.code().unwrap_or(1))
ToolExit(p) ==
  /\ tools[p].pc = "child_exited"
  /\ tools' = [tools EXCEPT ![p] = Exited(tools[p], ExitCodeOf(Unwrap(tools[p].status)))]
  /\ UNCHANGED <<phd, inits, clock>>
  /\ UNCHANGED exceptSystem

\* ------------------------------------------------- state: the handlers

\* The environment Steam launches an app of the library with.
LaunchEnv(appid) == (N_COMPAT :> CompatPathOf(appid)) @@ (N_STEAMAPPID :> appid)

\* The launches drawn: a command in tokens or in one line, for either app; a
\* command with no executable, with no command, with an open quote; a launch
\* with no compat data path, and one with no appid.
LaunchPool ==
  {<<(<<T_PROTON, T_RUN, T_GAME>>), LaunchEnv(ID10)>>,
   <<(<<T_FOO, T_PROTON, T_RUN, T_GAME>>), LaunchEnv(ID20)>>,
   <<(<<S_LINE>>), LaunchEnv(ID10)>>,
   <<(<<T_FOO, T_GAME>>), LaunchEnv(ID10)>>,
   <<(<<T_FOO>>), LaunchEnv(ID10)>>,
   <<(<<S_UNCLOSED>>), LaunchEnv(ID10)>>,
   <<(<<T_PROTON, T_GAME>>), (N_STEAMAPPID :> ID10)>>,
   <<(<<T_PROTON, T_GAME>>), EmptyEnv>>}

ToolKinds == {"run", "cmd", "exec"}

ToolSelectors == {LatestWord, ID10, <<"g", "u", "n">>}

\* The command given to run and to exec; cmd takes none.
ToolCommand(kind) == IF kind = "cmd" THEN <<>> ELSE <<T_GAME, T_FOO>>

SystemIdle ==
  /\ inits = [p \in InitProcs |-> OffInit]
  /\ tools = [p \in ToolProcs |-> OffTool]
  /\ clock = 0

\* The launches that race: a launch of either app that goes through.
RacePool ==
  {<<(<<T_PROTON, T_RUN, T_GAME>>), LaunchEnv(ID10)>>,
   <<(<<T_FOO, T_PROTON, T_RUN, T_GAME>>), LaunchEnv(ID20)>>}

\* A context whose game runs: started at the given time, with its four files.
RunningContext(appid, started_at) ==
  Context(Some(started_at), Some(T_PROTON), Some(CompatPathOf(appid) \o PfxSuffix),
          Some(EnvOf(appid)))

\* Roots that launches not followed here have left: no context, the games
\* Gun A and Gun B running, and two contexts that hold no file yet.
StandingRoots ==
  {EmptyRoot,
   [exists |-> TRUE,
    dirs |-> (ID10 :> RunningContext(ID10, <<"1", "0">>))
             @@ (ID20 :> RunningContext(ID20, <<"2", "0">>))],
   [exists |-> TRUE, dirs |-> (ID10 :> EmptyContext) @@ (ID20 :> EmptyContext)]}

\* The commands given to run, cmd or exec over a standing root: none, or one.
StandingCommands(kind) == {<<>>, ToolCommand(kind)}

\* Over a runtime directory that holds no root yet: one launch and one
\* invocation of run, cmd or exec, or two launches (of one app or of two);
\* or one invocation of run, cmd or exec over a standing root.
HandlersInit ==
  /\ clock = 0
  /\ \/ /\ phd = MissingRoot
        /\ \E launch \in LaunchPool :
             inits = [p \in InitProcs |->
                        IF p = "i1" THEN InitProc("start", launch[1], launch[2])
                        ELSE OffInit]
        /\ \E kind \in ToolKinds, sel \in ToolSelectors :
             tools = [p \in ToolProcs |->
                        ToolProc("start", kind, sel, ToolCommand(kind), EmptyEnv)]
     \/ /\ phd = MissingRoot
        /\ \E launches \in [InitProcs -> RacePool] :
             inits = [p \in InitProcs |->
                        InitProc("start", launches[p][1], launches[p][2])]
        /\ tools = [p \in ToolProcs |-> OffTool]
     \/ /\ phd \in StandingRoots
        /\ inits = [p \in InitProcs |-> OffInit]
        /\ \E kind \in ToolKinds, sel \in ToolSelectors :
             \E command \in StandingCommands(kind) :
               tools = [p \in ToolProcs |->
                          ToolProc("start", kind, sel, command, EmptyEnv)]

\* ------------------------------------------------------------ handle_doctor

\* "/opt/gone", a path that leads nowhere.
T_GONE == <<"/", "o", "p", "t", "/", "g", "o", "n", "e">>

\* The files outside the runtime root: the proton executable, the manifests.
OutsideFiles == {Components(T_PROTON)} \cup DOMAIN SteamFiles

\* Path::exists, for the paths drawn: absolute ones, and the empty path.
path_exists(root, path) ==
  /\ IsAbsolute(path)
  /\ \/ IsSome(DirAt(root, path))
     \/ Components(path) \in OutsideFiles

\* The counters `warnings` and `errors` of doctor, or a panic.
Tally(warnings, errors) ==
  [panicked |-> FALSE, warnings |-> warnings, errors |-> errors]

TallyPanicked == [panicked |-> TRUE, warnings |-> 0, errors |-> 0]

AddTally(a, b) ==
  IF a.panicked \/ b.panicked THEN TallyPanicked
  ELSE Tally(a.warnings + b.warnings, a.errors + b.errors)

\* inspect_context, the exe file: an error when the file cannot be read or
\* the path it records does not exist.
InspectExe(root, exe) ==
  IF IsSome(exe) /\ path_exists(root, Unwrap(exe)) THEN Tally(0, 0) ELSE Tally(0, 1)

\* An inspection that counts a bad pfx as an error.
InspectPfxAsError(root, pfx) ==
  IF IsSome(pfx) /\ path_exists(root, Unwrap(pfx)) THEN Tally(0, 0) ELSE Tally(0, 1)

\* inspect_context, the pfx file: a warning in either case.
InspectPfx(root, pfx) ==
  IF IsSome(pfx) /\ path_exists(root, Unwrap(pfx)) THEN Tally(0, 0) ELSE Tally(1, 0)

\* inspect_context, the compat data path of the env file: a warning when it is
\* missing and when it leads nowhere.
InspectCompat(root, compat_data) ==
  IF compat_data.panicked THEN TallyPanicked
  ELSE IF IsSome(compat_data.text) /\ path_exists(root, Unwrap(compat_data.text))
       THEN Tally(0, 0)
       ELSE Tally(1, 0)

\* inspect_context, the env file: an error when it cannot be read.
InspectEnv(root, env_content) ==
  IF ~IsSome(env_content) THEN Tally(0, 1)
  ELSE InspectCompat(root, get_env_var(Unwrap(env_content), N_COMPAT))

\* inspect_context, the started_at of the listing.
InspectStartedAt(started_at) ==
  IF IsSome(started_at) THEN Tally(0, 0) ELSE Tally(1, 0)

\* handlers.rs inspect_context
inspect_context(root, app) ==
  AddTally(AddTally(InspectExe(root, read_trimmed(root, app.path, F_EXE)),
                    InspectPfx(root, read_trimmed(root, app.path, F_PFX))),
           AddTally(InspectEnv(root, ReadContextFile(root, app.path, F_ENV)),
                    InspectStartedAt(app.started_at)))

\* for app in &apps { inspect_context(..) }, from app i on.
RECURSIVE InspectFrom(_, _, _, _)
InspectFrom(root, apps, i, tally) ==
  IF i > Len(apps) THEN tally
  ELSE InspectFrom(root, apps, i + 1, AddTally(tally, inspect_context(root, apps[i])))

\* handle_doctor, the environment: a compat data path that is set and leads
\* nowhere is a warning.
DoctorEnvironment(root, env) ==
  IF N_COMPAT \in DOMAIN env /\ ~path_exists(root, env[N_COMPAT])
  THEN Tally(1, 0)
  ELSE Tally(0, 0)

\* handle_doctor, the runtime root: a warning when it does not exist.
DoctorRuntime(root) == IF root.exists THEN Tally(0, 0) ELSE Tally(1, 0)

\* A doctor that says nothing of an empty list.
NoContextsSilent(apps) == Tally(0, 0)

\* handle_doctor, the contexts: a warning when there is none.
DoctorContexts(apps) == IF apps = <<>> THEN Tally(1, 0) ELSE Tally(0, 0)

\* The summary and the exit code: 1 when an error was counted, 101 on a panic.
DoctorReport(tally) ==
  [panicked |-> tally.panicked, warnings |-> tally.warnings, errors |-> tally.errors,
   code |-> IF tally.panicked THEN 101 ELSE IF tally.errors > 0 THEN 1 ELSE 0]

NoReport == [panicked |-> FALSE, warnings |-> 0, errors |-> 0, code |-> -1]

DoctorOver(root, head, collected) ==
  IF collected.panicked THEN DoctorReport(TallyPanicked)
  ELSE DoctorReport(InspectFrom(root, collected.apps, 1,
                                AddTally(head, DoctorContexts(collected.apps))))

\* handlers.rs handle_doctor
handle_doctor(root, env) ==
  DoctorOver(root, AddTally(DoctorEnvironment(root, env), DoctorRuntime(root)),
             collect_running_apps(root, TRUE))

\* ------------------------------------------------------- state: the doctor

DoctorRun(stage, env) == [stage |-> stage, env |-> env, report |-> NoReport]

OffDoctor == DoctorRun("off", EmptyEnv)

DoctorIdle == doctor = OffDoctor

\* The env file of a context whose compat data path leads nowhere, and of one
\* that records none.
DanglingEnv(appid) ==
  write_env_file((N_COMPAT :> CompatPathOf(ID7)) @@ (N_STEAMAPPID :> appid),
                 <<N_COMPAT, N_STEAMAPPID>>)

BareEnv(appid) == write_env_file((N_STEAMAPPID :> appid), <<N_STEAMAPPID>>)

DoctorStarted == {None, Some(<<"x">>), Some(<<"1", "0">>)}
DoctorExes == {None, Some(T_PROTON), Some(T_GONE)}
DoctorPfxs ==
  {None, Some(CompatPathOf(ID10) \o PfxSuffix), Some(CompatPathOf(ID7) \o PfxSuffix)}
DoctorEnvFiles == {None, Some(EnvOf(ID10)), Some(DanglingEnv(ID10)), Some(BareEnv(ID10))}

\* The context of app 10, in every state of its files; the context of app 20
\* running (its prefix is not there yet) or holding no file.
DoctorContextsOf10 ==
  {Context(st, exe, pfx, env) :
     st \in DoctorStarted, exe \in DoctorExes, pfx \in DoctorPfxs, env \in DoctorEnvFiles}

DoctorContextsOf20 == {RunningContext(ID20, <<"2", "0">>), EmptyContext}

DoctorRoots ==
  {MissingRoot, EmptyRoot}
  \cup {[exists |-> TRUE, dirs |-> (ID10 :> c)] : c \in DoctorContextsOf10}
  \cup {[exists |-> TRUE, dirs |-> (ID20 :> d)] : d \in DoctorContextsOf20}
  \cup {[exists |-> TRUE, dirs |-> (ID10 :> c) @@ (ID20 :> d)] :
          c \in DoctorContextsOf10, d \in DoctorContextsOf20}

\* The environment doctor runs in: outside Steam, in a launch of app 10, in a
\* launch of app 7 (whose compat data is not there).
DoctorEnvs == {EmptyEnv, LaunchEnv(ID10), LaunchEnv(ID7)}

DoctorInit ==
  /\ phd \in DoctorRoots
  /\ \E env \in DoctorEnvs : doctor = DoctorRun("start", env)

\* doctor.report = handle_doctor(phd)
Diagnose ==
  /\ doctor.stage = "start"
  /\ doctor' = [doctor EXCEPT !.stage = "done", !.report = handle_doctor(phd, doctor.env)]
  /\ UNCHANGED phd
  /\ UNCHANGED exceptDoctor

\* ------------------------------------------------------------ the lister

\* collect_running_apps one system call at a time, for ls, ls -l, the
\* resolution of `latest` and a resolution by name.
ListerKinds == {"ls", "ls_long", "latest", "name"}

\* The with_meta argument of collect_running_apps.
WithMeta(kind) == kind \in {"ls_long", "name"}

\* An invocation that lists: where it stands, what it is, the entries
\* fs::read_dir gave and those still to visit, the metadata of the entry at
\* hand, the apps pushed, how it failed if it did, and what it resolved to.
Lister(pc, kind) ==
  [pc |-> pc, kind |-> kind, listed |-> {}, pending |-> <<>>,
   meta |-> DefaultMeta, apps |-> <<>>, failed |-> "none", outcome |-> Unresolved]

OffLister == Lister("off", "ls")

\* On to the next entry of the directory, or to the sort after the last.
NextEntry(me, rest) ==
  [me EXCEPT !.pending = rest, !.meta = DefaultMeta,
             !.pc = IF rest = <<>> THEN "collected" ELSE "entry"]

\* A lister that takes an app without a started_at for an error.
PushAppOrFail(me, app) ==
  IF IsSome(app.started_at)
  THEN NextEntry([me EXCEPT !.apps = Append(@, app)], Tail(me.pending))
  ELSE [me EXCEPT !.pc = "done", !.failed = "io"]

\* apps.push(RunningApp { .. })
PushApp(me, app) == NextEntry([me EXCEPT !.apps = Append(@, app)], Tail(me.pending))

\* What the metadata read makes of the invocation.
AfterMeta(me, meta) ==
  IF meta.panicked THEN [me EXCEPT !.pc = "done", !.failed = "panic"]
  ELSE [me EXCEPT !.pc = "started", !.meta = meta.meta]

\* apps.sort_by(appid): the appids of one listing are distinct.
SortApps(apps, ids) ==
  [k \in 1..Len(ids) |-> apps[CHOOSE j \in DOMAIN apps : apps[j].appid = ids[k]]]

\* What the caller makes of the sorted apps: ls prints them, the resolvers
\* choose among them.
ListerOutcome(kind, apps, query) ==
  IF kind = "latest" THEN LatestOf(apps)
  ELSE IF kind = "name" THEN MatchOf(AtPositions(apps, NameMatches(apps, query)))
  ELSE Unresolved

\* if !phd.exists() { return Ok(Vec::new()) }; fs::read_dir(phd): the entries,
\* in the order the directory gives them.
ListerReadDir ==
  /\ lister.pc = "start"
  /\ IF ~phd.exists
     THEN lister' = [lister EXCEPT !.pc = "collected"]
     ELSE \E order \in Orders(DOMAIN phd.dirs) :
            lister' = NextEntry([lister EXCEPT !.listed = DOMAIN phd.dirs], order)
  /\ UNCHANGED <<phd, inits, tools, clock>>
  /\ UNCHANGED exceptLister

\* if !path.is_dir() { continue }
ListerIsDir ==
  /\ lister.pc = "entry"
  /\ lister' = IF HasDir(phd, Head(lister.pending))
               THEN [lister EXCEPT !.pc = IF WithMeta(lister.kind) THEN "meta" ELSE "started"]
               ELSE NextEntry(lister, Tail(lister.pending))
  /\ UNCHANGED <<phd, inits, tools, clock>>
  /\ UNCHANGED exceptLister

\* resolve_app_meta(&path, &appid)
ListerReadMeta ==
  /\ lister.pc = "meta"
  /\ lister' = AfterMeta(lister,
                         resolve_app_meta(phd, Join(RuntimeRoot, Head(lister.pending)),
                                          Head(lister.pending)))
  /\ UNCHANGED <<phd, inits, tools, clock>>
  /\ UNCHANGED exceptLister

\* read_started_at(&path), and the push of the entry.
ListerReadStartedAt ==
  /\ lister.pc = "started"
  /\ lister' = PushApp(lister,
                       RunningApp(Head(lister.pending),
                                  Join(RuntimeRoot, Head(lister.pending)),
                                  lister.meta.name, lister.meta.install_path,
                                  read_started_at(phd, Join(RuntimeRoot, Head(lister.pending)))))
  /\ UNCHANGED <<phd, inits, tools, clock>>
  /\ UNCHANGED exceptLister

\* The sort, and what the caller does with the list.
ListerFinish ==
  /\ lister.pc = "collected"
  /\ lister' = [lister EXCEPT
                  !.pc = "done",
                  !.apps = SortApps(lister.apps,
                                    SortTexts({lister.apps[k].appid : k \in DOMAIN lister.apps})),
                  !.outcome = ListerOutcome(lister.kind,
                                SortApps(lister.apps,
                                         SortTexts({lister.apps[k].appid : k \in DOMAIN lister.apps})),
                                ID_GUN)]
  /\ UNCHANGED <<phd, inits, tools, clock>>
  /\ UNCHANGED exceptLister

\* ------------------------------------------------------- state: the lister

ListerIdle == lister = OffLister

ReadIdle == ListerIdle /\ DoctorIdle

\* A root with no context yet, and one where the game Gun B runs.
ReaderRoots ==
  {MissingRoot, [exists |-> TRUE, dirs |-> (ID20 :> RunningContext(ID20, <<"0">>))]}

\* One launch, of app 10 or of app 20, beside one invocation that lists.
ReadersInit ==
  /\ phd \in ReaderRoots
  /\ clock = 0
  /\ \E launch \in RacePool :
       inits = [p \in InitProcs |->
                  IF p = "i1" THEN InitProc("start", launch[1], launch[2]) ELSE OffInit]
  /\ tools = [p \in ToolProcs |-> OffTool]
  /\ \E kind \in ListerKinds : lister = Lister("start", kind)

\* ---------------------------------------------------------- specifications

CodecNext == Escape \/ Unescape \/ UnescapeRaw

InitCodec == CodecInit /\ StoreIdle /\ ClassIdle /\ AssignIdle /\ ResolveIdle /\ RootIdle /\ SystemIdle /\ ReadIdle

SpecCodec == InitCodec /\ [][CodecNext]_vars

StoreNext == WriteEnvFile \/ LoadEnv

InitStore == StoreInit /\ CodecIdle /\ ClassIdle /\ AssignIdle /\ ResolveIdle /\ RootIdle /\ SystemIdle /\ ReadIdle

SpecStore == InitStore /\ [][StoreNext]_vars

ClassNext == ResplitMalformed \/ Resplit \/ TakeAsGiven \/ Classify

InitClassify == ClassInit /\ CodecIdle /\ StoreIdle /\ AssignIdle /\ ResolveIdle /\ RootIdle /\ SystemIdle /\ ReadIdle

SpecClassify == InitClassify /\ [][ClassNext]_vars

AssignNext == TestAssignment

InitAssign == AssignInit /\ CodecIdle /\ StoreIdle /\ ClassIdle /\ ResolveIdle /\ RootIdle /\ SystemIdle /\ ReadIdle

SpecAssign == InitAssign /\ [][AssignNext]_vars

ResolveNext == Resolve

InitResolve == ResolveInit /\ CodecIdle /\ StoreIdle /\ ClassIdle /\ AssignIdle /\ SystemIdle /\ ReadIdle

SpecResolve == InitResolve /\ [][ResolveNext]_vars

SelectNext == Resolve

InitSelect == SelectInit /\ CodecIdle /\ StoreIdle /\ ClassIdle /\ AssignIdle /\ SystemIdle /\ ReadIdle

SpecSelect == InitSelect /\ [][SelectNext]_vars

DoctorNext == Diagnose

InitDoctor ==
  DoctorInit /\ CodecIdle /\ StoreIdle /\ ClassIdle /\ AssignIdle /\ ResolveIdle
  /\ SystemIdle /\ ListerIdle

SpecDoctor == InitDoctor /\ [][DoctorNext]_vars

HandleInit(p) ==
  \/ InitCreateDir(p)
  \/ InitWriteStartedAt(p)
  \/ InitClassifyCommand(p)
  \/ InitWriteExe(p)
  \/ InitWritePfx(p)
  \/ InitWriteEnv(p)
  \/ InitSpawn(p)
  \/ InitChildExit(p)
  \/ InitTeardown(p)

HandleList ==
  \/ ListerReadDir
  \/ ListerIsDir
  \/ ListerReadMeta
  \/ ListerReadStartedAt
  \/ ListerFinish

ReadersNext == (\E p \in InitProcs : HandleInit(p)) \/ HandleList

InitReaders ==
  ReadersInit /\ CodecIdle /\ StoreIdle /\ ClassIdle /\ AssignIdle /\ ResolveIdle
  /\ DoctorIdle

SpecReaders == InitReaders /\ [][ReadersNext]_vars

HandleTool(p) ==
  \/ ToolResolve(p)
  \/ ToolLoadEnv(p)
  \/ ToolSpawn(p)
  \/ ToolChildExit(p)
  \/ ToolExit(p)

HandlersNext ==
  (\E p \in InitProcs : HandleInit(p)) \/ (\E p \in ToolProcs : HandleTool(p))

InitHandlers ==
  HandlersInit /\ CodecIdle /\ StoreIdle /\ ClassIdle /\ AssignIdle /\ ResolveIdle /\ ReadIdle

SpecHandlers == InitHandlers /\ [][HandlersNext]_vars

\* An invocation of init whose child has ended runs on to its end.
TeardownFairness == \A p \in InitProcs : WF_vars(InitTeardown(p))

SpecHandlersFair == SpecHandlers /\ TeardownFairness

\* ------------------------------------------------------------------ claims

\* C1: codec round trip: un_shell_escape(shell_escape(v)) = v for every text v,
\* whatever whitespace, quotes, backslashes, dollar signs or backticks it holds.
C1_RoundTrip ==
  codecStage = "roundtrip" => decoded = Returned(value)

\* A round trip of a value that holds every escaped character at once.
C1_Witness ==
  /\ codecStage = "roundtrip"
  /\ decoded = Returned(value)
  /\ Contains(value, BS)
  /\ Contains(value, DQ)
  /\ Contains(value, DOLLAR)
  /\ Contains(value, BT)

\* C2: store round trip: an environment written by create's env writer and
\* parsed back by load_environment is the original environment, whatever its
\* values hold (line breaks and surrounding whitespace included).
C2_StoreRoundTrip ==
  storeStage = "loaded" => loaded = Replayed(environ)

\* C3: un_shell_escape is total: it returns for every text, including the empty
\* text, a single double quote and a quoted text ending in a lone backslash; a
\* text not wrapped in a matching pair of double quotes is returned unchanged.
WrappedInQuotes(s) == Len(s) >= 2 /\ s[1] = DQ /\ s[Len(s)] = DQ

C3_UnescapeTotal ==
  codecStage = "decoded" =>
    /\ ~decoded.panicked
    /\ ~WrappedInQuotes(value) => decoded = Returned(value)

\* C4: context lifetime: in every run of init that launched its child, once
\* the child has ended (with any status, or by a signal) init runs on to its
\* end; it has then tried to delete root/appid, the directory is gone at the
\* step init ends unless that deletion failed, and a failed deletion is
\* ignored.
ChildEnded(p) == inits[p].child.spawned /\ IsSome(inits[p].status)

C4_ContextLifetime ==
  /\ [](\A p \in InitProcs :
         /\ (inits[p].pc = "exited" /\ ChildEnded(p)) => inits[p].removal \in {"ok", "failed"}
         /\ (inits[p].pc = "exited" /\ inits[p].removal = "ok") => ChildEnded(p))
  /\ [][\A p \in InitProcs :
          (ChildEnded(p) /\ inits[p].pc # "exited" /\ inits'[p].pc = "exited")
            => (~HasDir(phd', inits[p].appid) \/ inits'[p].removal = "failed")]_vars
  /\ \A p \in InitProcs : ChildEnded(p) ~> inits[p].pc = "exited"

\* Two launches of one app have ended after their children: the first has
\* deleted the context, the deletion of the second has failed, and the
\* context is gone.
C4_Witness ==
  /\ \A p \in InitProcs : inits[p].pc = "exited" /\ ChildEnded(p) /\ inits[p].appid = ID10
  /\ inits["i1"].removal = "ok"
  /\ inits["i2"].removal = "failed"
  /\ inits["i2"].status = Some(None)
  /\ ~HasDir(phd, ID10)

\* C5: exit-code pass-through: when init, run, cmd or exec has launched its
\* child and the child has ended with code c, the tool ends with exit code c,
\* and with 1 when the child left no exit code; for init, whether the deletion
\* of the context succeeded or failed makes no difference to that exit code.
ExpectedExit(status) == IF status = Some(None) THEN 1 ELSE status[1][1]

C5_ExitCodePassThrough ==
  /\ \A p \in InitProcs :
       /\ (inits[p].pc = "exited" /\ ChildEnded(p)) =>
            inits[p].code = ExpectedExit(inits[p].status)
       /\ (inits[p].pc # "exited" /\ ChildEnded(p)) => inits[p].pc = "child_exited"
  /\ \A p \in ToolProcs :
       /\ (tools[p].pc = "exited" /\ tools[p].child.spawned /\ IsSome(tools[p].status)) =>
            tools[p].code = ExpectedExit(tools[p].status)
       /\ (tools[p].pc # "exited" /\ IsSome(tools[p].status)) => tools[p].pc = "child_exited"

\* init has ended with 255 after a deletion that failed, and cmd has ended
\* with 1 after a child that a signal ended.
C5_Witness ==
  /\ inits["i1"].pc = "exited"
  /\ inits["i1"].status = Some(Some(255))
  /\ inits["i1"].removal = "failed"
  /\ inits["i1"].code = 255
  /\ tools["t1"].pc = "exited"
  /\ tools["t1"].kind = "cmd"
  /\ tools["t1"].status = Some(None)
  /\ tools["t1"].code = 1

\* C6: classifier boundary: the assignments are the maximal leading run of
\* assignment tokens, the real argv is the rest from the first token that is
\* no assignment (later NAME=VALUE tokens stay in it), and NoCommand is the
\* result iff every token is an assignment (an empty re-split included).
\* FOO=1 /opt/proton waitforexitandrun game.exe gives the assignment FOO=1 and
\* the real argv /opt/proton waitforexitandrun game.exe.
C6_Boundary ==
  (classStage = "done" /\ classified.kind # "Malformed") =>
    /\ classified.kind = "NoCommand"
         <=> \A i \in 1..Len(cmd_tokens) : is_env_assignment(cmd_tokens[i])
    /\ classified.kind \in {"Ok", "NoExecutable"} =>
         /\ classified.assignments \o classified.real_cmd = cmd_tokens
         /\ \A i \in 1..Len(classified.assignments) :
              is_env_assignment(classified.assignments[i])
         /\ Len(classified.real_cmd) >= 1
         /\ ~is_env_assignment(classified.real_cmd[1])
    /\ cmd_tokens = <<T_FOO, T_PROTON, T_RUN, T_GAME>> =>
         classified = Classified("Ok", <<T_FOO>>, <<T_PROTON, T_RUN, T_GAME>>, T_PROTON)

\* An assignment is stripped and a later NAME=VALUE token stays in the real argv.
C6_Witness ==
  /\ classStage = "done"
  /\ classified.kind = "Ok"
  /\ Len(classified.assignments) >= 1
  /\ \E i \in 2..Len(classified.real_cmd) : is_env_assignment(classified.real_cmd[i])

\* C7: executable location: the executable path is the first token of the real
\* argv that contains /proton, and stays a member of the real argv; the result
\* is NoExecutable iff no token of the real argv contains /proton, even when a
\* stripped assignment's value does.
C7_Executable ==
  classStage = "done" =>
    /\ classified.kind = "Ok" =>
         \E i \in 1..Len(classified.real_cmd) :
           /\ classified.real_cmd[i] = classified.proton_path
           /\ ContainsSub(classified.real_cmd[i], ProtonNeedle)
           /\ \A j \in 1..(i - 1) : ~ContainsSub(classified.real_cmd[j], ProtonNeedle)
    /\ classified.kind \in {"Ok", "NoExecutable"} =>
         (classified.kind = "NoExecutable"
            <=> \A i \in 1..Len(classified.real_cmd) :
                  ~ContainsSub(classified.real_cmd[i], ProtonNeedle))

\* NoExecutable although a stripped assignment's value contains /proton.
C7_Witness ==
  /\ classStage = "done"
  /\ classified.kind = "NoExecutable"
  /\ \E i \in 1..Len(classified.assignments) :
       ContainsSub(classified.assignments[i], ProtonNeedle)

\* C8 as stated: a one-token command that holds whitespace classifies like the
\* sequence its word-splitting gives, and any other command is classified as
\* given.
C8_ResplitEquivalence ==
  classStage = "done" =>
    IF Len(cmd) = 1 /\ ContainsWhitespace(cmd[1])
    THEN IF shell_words_split(cmd[1]).ok
         THEN classified = ClassifyCommand(shell_words_split(cmd[1]).words)
         ELSE classified.kind = "Malformed"
    ELSE cmd_tokens = cmd /\ classified = ClassifyTokens(cmd)

\* C8, amended: the command is split once. A one-token command that holds
\* whitespace gives the result of classifying its split sequence as given
\* (no second split), which is the result of classifying that sequence as a
\* command unless the sequence is itself one token that holds whitespace; any
\* other command is classified as given.
C8_ResplitOnce ==
  classStage = "done" =>
    IF Len(cmd) = 1 /\ ContainsWhitespace(cmd[1])
    THEN LET split == shell_words_split(cmd[1]) IN
         IF split.ok
         THEN /\ classified = ClassifyTokens(split.words)
              /\ ~(Len(split.words) = 1 /\ ContainsWhitespace(split.words[1]))
                   => classified = ClassifyCommand(split.words)
         ELSE classified.kind = "Malformed"
    ELSE cmd_tokens = cmd /\ classified = ClassifyTokens(cmd)

\* The one-token command FOO=1 /opt/proton waitforexitandrun game.exe, classified.
C8_Witness ==
  /\ classStage = "done"
  /\ cmd = <<S_LINE>>
  /\ classified = Classified("Ok", <<T_FOO>>, <<T_PROTON, T_RUN, T_GAME>>, T_PROTON)

\* C9: assignment grammar: is_env_assignment(t) iff t contains = and the text
\* before the first = is non-empty, starts with an ASCII letter or underscore
\* and holds only ASCII letters, digits and underscores.
AssignmentGrammar(t) ==
  /\ Contains(t, EQ)
  /\ LET name == SubSeq(t, 1, Find(t, EQ) - 1) IN
     /\ Len(name) >= 1
     /\ name[1] \in AsciiLetters \cup {"_"}
     /\ \A i \in 1..Len(name) : name[i] \in AsciiLetters \cup AsciiDigits \cup {"_"}

C9_AssignmentGrammar ==
  assignStage = "tested" =>
    /\ isAssignment <=> AssignmentGrammar(token)
    /\ token \in {T_FOO, <<"_", "A", "1", EQ, "1">>} => isAssignment
    /\ token \in {<<"1", "F", "O", "O", EQ, "1">>,
                  <<"F", "O", "O", "-", "B", "A", "R", EQ, "1">>,
                  <<EQ, "1">>, <<"F", "O", "O">>} => ~isAssignment

\* 1FOO=1 tested and found to be no assignment.
C9_Witness ==
  /\ assignStage = "tested"
  /\ token = <<"1", "F", "O", "O", EQ, "1">>
  /\ ~isAssignment

\* C10: resolve("latest") picks a maximum: whenever a listed context has a
\* parseable started_at, resolving `latest` (in any letter case) returns a
\* context that has a started_at, no listed context has a greater one, and a
\* context without a started_at is not chosen; over contexts started at 10
\* and 20 it returns the one started at 20.
StartedAtOf(appid) == read_started_at(phd, Join(RuntimeRoot, appid))

TimedContexts == {a \in DOMAIN phd.dirs : phd.exists /\ IsSome(StartedAtOf(a))}

C10_LatestIsMaximum ==
  (resolveStage = "resolved" /\ ToLower(resolveSelector) = LatestWord) =>
    /\ TimedContexts # {} =>
         /\ resolved.kind = "Ok"
         /\ resolved.appid \in TimedContexts
         /\ resolved.app_dir = Join(RuntimeRoot, resolved.appid)
         /\ \A b \in TimedContexts :
              Unwrap(StartedAtOf(b)) <= Unwrap(StartedAtOf(resolved.appid))
    /\ (/\ DOMAIN phd.dirs = {ID10, ID20}
        /\ phd.dirs[ID10].started_at = Some(<<"2", "0">>)
        /\ phd.dirs[ID20].started_at = Some(<<"1", "0">>)) => resolved.appid = ID10

\* LATEST resolved over a context started at 20, one started at 5 and one
\* whose started_at does not parse: the one started at 20 is returned.
C10_Witness ==
  /\ resolveStage = "resolved"
  /\ resolveSelector = <<"L", "A", "T", "E", "S", "T">>
  /\ DOMAIN phd.dirs = {ID10, ID20, ID7}
  /\ phd.dirs[ID10].started_at = Some(<<"2", "0">>)
  /\ phd.dirs[ID20].started_at = Some(<<"5">>)
  /\ phd.dirs[ID7].started_at = Some(<<"x">>)
  /\ resolved = TargetApp(ID10, Join(RuntimeRoot, ID10))

\* C11: resolve("latest") without timestamps: when no listed context has a
\* parseable started_at, resolving `latest` returns the context if exactly one
\* is listed, fails Ambiguous if two or more are, and fails NoneRunning if none
\* is (the root may not exist).
ListedContexts == IF phd.exists THEN DOMAIN phd.dirs ELSE {}

C11_LatestWithoutTimes ==
  (/\ resolveStage = "resolved"
   /\ ToLower(resolveSelector) = LatestWord
   /\ TimedContexts = {}) =>
    /\ Cardinality(ListedContexts) = 1 =>
         \E a \in ListedContexts : resolved = TargetApp(a, Join(RuntimeRoot, a))
    /\ Cardinality(ListedContexts) >= 2 => resolved = ResolveExit("Ambiguous", <<>>)
    /\ ListedContexts = {} => resolved = ResolveExit("NoneRunning", <<>>)

\* Latest resolved over two contexts, one with no started_at and one whose
\* started_at does not parse: Ambiguous.
C11_Witness ==
  /\ resolveStage = "resolved"
  /\ resolveSelector = <<"L", "a", "t", "e", "s", "t">>
  /\ phd.exists
  /\ DOMAIN phd.dirs = {ID10, ID7}
  /\ phd.dirs[ID10].started_at = None
  /\ phd.dirs[ID7].started_at = Some(<<"x">>)
  /\ resolved = ResolveExit("Ambiguous", <<>>)

\* C12: name resolution: for a selector that is not `latest` and names no
\* directory under the root, the resolution returns a context iff exactly one
\* listed context has a resolved name that contains the selector, letter case
\* apart; with no such context it fails NotFound, with two or more it fails
\* Ambiguous and reports the (appid, name) pair of each of them; a context
\* whose name is unknown never matches.
NameOfContext(a) == resolve_app_meta(phd, Join(RuntimeRoot, a), a).meta.name

FoldedSubstring(text, q) ==
  \E i \in 0..(Len(text) - Len(q)) :
    \A j \in 1..Len(q) : ToLowerChar(text[i + j]) = ToLowerChar(q[j])

NamedContexts(names, q) ==
  {a \in DOMAIN names : IsSome(names[a]) /\ FoldedSubstring(Unwrap(names[a]), q)}

NameResolution(names, hits) ==
  /\ resolved.kind = "Ok" <=> Cardinality(hits) = 1
  /\ Cardinality(hits) = 1 =>
       \E a \in hits : resolved = TargetApp(a, Join(RuntimeRoot, a))
  /\ hits = {} => resolved = ResolveExit("NotFound", <<>>)
  /\ Cardinality(hits) >= 2 =>
       /\ resolved.kind = "Exit"
       /\ resolved.error = "Ambiguous"
       /\ resolved.code = 2
       /\ Len(resolved.matches) = Cardinality(hits)
       /\ {resolved.matches[k] : k \in DOMAIN resolved.matches}
            = {<<a, Unwrap(names[a])>> : a \in hits}
  /\ \A a \in DOMAIN names :
       ~IsSome(names[a]) =>
         /\ resolved.kind = "Ok" => resolved.appid # a
         /\ \A k \in DOMAIN resolved.matches : resolved.matches[k][1] # a

NamesResolved(names) == NameResolution(names, NamedContexts(names, resolveSelector))

C12_NameResolution ==
  (/\ resolveStage = "resolved"
   /\ ToLower(resolveSelector) # LatestWord
   /\ ~is_dir(phd, Join(RuntimeRoot, resolveSelector))) =>
    NamesResolved([a \in ListedContexts |-> NameOfContext(a)])

\* gun resolved over the contexts of Gun A and Gun B and a context with no
\* name: Ambiguous, with both pairs reported.
C12_Witness ==
  /\ resolveStage = "resolved"
  /\ resolveSelector = <<"g", "u", "n">>
  /\ phd.exists
  /\ DOMAIN phd.dirs = {ID10, ID20, ID7}
  /\ resolved = ResolveExit("Ambiguous", <<(<<ID10, NAME_GUN_A>>), (<<ID20, NAME_GUN_B>>)>>)

\* C13: exact match wins: for every selector other than `latest`, if
\* root/selector is a directory the resolution returns it with the selector as
\* its appid, however many contexts have a name that contains the selector, and
\* without reading any metadata (an env file the listing would fail on makes
\* no difference).
C13_ExactMatchWins ==
  (resolveStage = "resolved" /\ ToLower(resolveSelector) # LatestWord) =>
    /\ resolveSelector \in ListedContexts =>
         /\ resolved.kind = "Ok"
         /\ resolved.appid = resolveSelector
         /\ resolved.app_dir = RuntimeRoot \o <<SLASH>> \o resolveSelector
    /\ is_dir(phd, Join(RuntimeRoot, resolveSelector)) =>
         resolved = TargetApp(resolveSelector, Join(RuntimeRoot, resolveSelector))

\* gun resolved while the context gun exists beside the contexts of Gun A and
\* Gun B, the env file of one of the three being broken: the context gun.
C13_Witness ==
  /\ resolveStage = "resolved"
  /\ resolveSelector = ID_GUN
  /\ phd.exists
  /\ DOMAIN phd.dirs = {ID10, ID20, ID_GUN}
  /\ phd.dirs[ID10].env = Some(EnvOf(ID10))
  /\ phd.dirs[ID20].env = Some(BrokenEnv(ID20))
  /\ phd.dirs[ID_GUN].env = Some(EnvOf(ID_GUN))
  /\ resolved = TargetApp(ID_GUN, RuntimeRoot \o <<SLASH>> \o ID_GUN)

\* C14: a resolution that fails has no side effect and exits with 2: whenever
\* run, cmd or exec (run and exec with a command) fails to resolve its selector
\* (NoneRunning, NotFound or Ambiguous) it ends with exit code 2, has launched
\* no child, and has left its environment as it was: SteamAppId is not set and
\* no entry of a snapshot is replayed.
ResolutionFailed(p) == tools[p].target.kind = "Exit"

C14_FailedResolution ==
  /\ \A p \in ToolProcs :
       /\ ResolutionFailed(p) =>
            /\ tools[p].target.error \in {"NoneRunning", "NotFound", "Ambiguous"}
            /\ tools[p].pc = "exited"
            /\ tools[p].code = 2
            /\ ~tools[p].child.spawned
            /\ tools[p].status = None
            /\ tools[p].env = EmptyEnv
       /\ (tools[p].pc = "exited" /\ tools[p].target.kind = "None") =>
            (tools[p].cmd = <<>> /\ tools[p].code = 1)

\* run has failed on gun, the name of two running games: exit code 2, both
\* games reported, no child, the environment untouched.
C14_Witness ==
  /\ tools["t1"].pc = "exited"
  /\ tools["t1"].kind = "run"
  /\ tools["t1"].cmd # <<>>
  /\ tools["t1"].target = ResolveExit("Ambiguous", <<(<<ID10, NAME_GUN_A>>), (<<ID20, NAME_GUN_B>>)>>)
  /\ tools["t1"].code = 2
  /\ ~tools["t1"].child.spawned
  /\ tools["t1"].env = EmptyEnv

\* C15: doctor over an empty root, one that does not exist or one that holds
\* no context, reports no error and at least one warning, and does not fail.
C15_DoctorEmptyRoot ==
  (doctor.stage = "done" /\ ListedContexts = {}) =>
    /\ ~doctor.report.panicked
    /\ doctor.report.errors = 0
    /\ doctor.report.warnings >= 1
    /\ doctor.report.code = 0

\* doctor outside Steam over a root that exists and holds no context: one
\* warning, no error, exit code 0.
C15_Witness ==
  /\ doctor.stage = "done"
  /\ doctor.env = EmptyEnv
  /\ phd = EmptyRoot
  /\ doctor.report = [panicked |-> FALSE, warnings |-> 1, errors |-> 0, code |-> 0]

\* C16: classification precedes persistence: init writes nothing to the
\* context store before the classification of its command has succeeded, so
\* an init that has failed on its command (Malformed, NoCommand or
\* NoExecutable) has exit code 1, has launched no child, and has left the root
\* as it was: no root/appid directory, and no file in it.
ParseFailed(p) ==
  inits[p].classified.kind \in {"Malformed", "NoCommand", "NoExecutable"}

C16_ClassifyBeforePersist ==
  \A p \in InitProcs :
    (/\ inits[p].pc = "exited"
     /\ ParseFailed(p)
     /\ \A q \in InitProcs \ {p} : inits[q].pc = "off") =>
      /\ inits[p].code = 1
      /\ ~inits[p].child.spawned
      /\ ~HasDir(phd, inits[p].appid)
      /\ phd = MissingRoot

\* C17: readers tolerate contexts written in part: a list or a resolution
\* (by `latest` or by name) that runs beside a launch, and so may find
\* root/appid with any number of the files started_at, exe, pfx, env written
\* so far, does not fail; a context that is there throughout is listed once,
\* with each field whose file is missing given as unknown. The same holds of
\* a listing of any one state of the root.
ListedAs(a) == {k \in DOMAIN lister.apps : lister.apps[k].appid = a}

FieldsDegrade(app, ctx, with_meta) ==
  /\ ctx.started_at = None => app.started_at = None
  /\ (ctx.env = None \/ ~with_meta) => (app.name = None /\ app.install_path = None)

SnapshotListed(collected) ==
  /\ ~collected.panicked
  /\ Len(collected.apps) = Cardinality(ListedContexts)
  /\ \A a \in ListedContexts :
       \E k \in DOMAIN collected.apps :
         /\ collected.apps[k].appid = a
         /\ collected.apps[k].path = RuntimeRoot \o <<SLASH>> \o a
         /\ FieldsDegrade(collected.apps[k], phd.dirs[a], TRUE)
         /\ phd.dirs[a].started_at # None =>
              collected.apps[k].started_at = parse_u64(Trim(Unwrap(phd.dirs[a].started_at)))

C17_PartialContexts ==
  /\ lister.failed = "none"
  /\ lister.outcome.kind # "Panic"
  /\ lister.pc = "done" =>
       /\ \A k \in DOMAIN lister.apps :
            /\ lister.apps[k].appid \in lister.listed
            /\ Cardinality(ListedAs(lister.apps[k].appid)) = 1
       /\ \A a \in lister.listed :
            HasDir(phd, a) =>
              /\ Cardinality(ListedAs(a)) = 1
              /\ \A k \in ListedAs(a) :
                   FieldsDegrade(lister.apps[k], phd.dirs[a], WithMeta(lister.kind))
  /\ SnapshotListed(collect_running_apps(phd, TRUE))

\* ls -l has listed the running game Gun B and, beside it, the context of app
\* 10 read after its started_at was written and before its env file was: its
\* name is unknown.
C17_Witness ==
  /\ lister.pc = "done"
  /\ lister.kind = "ls_long"
  /\ Len(lister.apps) = 2
  /\ lister.apps[1].appid = ID10
  /\ lister.apps[1].started_at # None
  /\ lister.apps[1].name = None
  /\ lister.apps[2].appid = ID20
  /\ lister.apps[2].name = Some(NAME_GUN_B)
  /\ inits["i1"].pc = "exe_written"

\* C18: the verdict of doctor: the run fails (exit code 1) iff the number of
\* errors is positive; for each context an error is counted exactly for an
\* exe file that is missing or records a path that does not exist, and for an
\* env file that cannot be read; a pfx file that is missing or records a path
\* that does not exist, a compat data path that the env file lacks or that
\* leads nowhere, and a started_at that is absent or does not parse each count
\* as one warning; no number of warnings makes the run fail.
ExistingPaths ==
  {T_PROTON, CompatPathOf(ID10), CompatPathOf(ID10) \o PfxSuffix, CompatPathOf(ID20)}

ExeBad(ctx) == ctx.exe = None \/ Unwrap(ctx.exe) \notin ExistingPaths
EnvUnreadable(ctx) == ctx.env = None
PfxBad(ctx) == ctx.pfx = None \/ Unwrap(ctx.pfx) \notin ExistingPaths
CompatBad(ctx) ==
  ctx.env # None /\ ctx.env \notin {Some(EnvOf(ID10)), Some(EnvOf(ID20))}
StartedBad(ctx) == ctx.started_at \notin {Some(<<"1", "0">>), Some(<<"2", "0">>)}

CountOf(Bad(_)) == Cardinality({a \in ListedContexts : Bad(phd.dirs[a])})

\* The warnings that are not about a context.
GeneralWarnings ==
  (IF N_COMPAT \in DOMAIN doctor.env /\ doctor.env[N_COMPAT] \notin ExistingPaths
   THEN 1 ELSE 0)
  + (IF phd.exists THEN 0 ELSE 1)
  + (IF ListedContexts = {} THEN 1 ELSE 0)

C18_DoctorVerdict ==
  doctor.stage = "done" =>
    /\ ~doctor.report.panicked
    /\ doctor.report.errors = CountOf(ExeBad) + CountOf(EnvUnreadable)
    /\ doctor.report.warnings =
         GeneralWarnings + CountOf(PfxBad) + CountOf(CompatBad) + CountOf(StartedBad)
    /\ doctor.report.code \in {0, 1}
    /\ doctor.report.code = 1 <=> doctor.report.errors > 0

\* doctor, in a launch whose compat data is not there, over the context of
\* app 10 with every warning and no error, and the running game of app 20
\* whose prefix is not there yet: five warnings, exit code 0.
C18_Witness ==
  /\ doctor.stage = "done"
  /\ doctor.env = LaunchEnv(ID7)
  /\ phd.exists
  /\ DOMAIN phd.dirs = {ID10, ID20}
  /\ phd.dirs[ID10] = Context(None, Some(T_PROTON), None, Some(BareEnv(ID10)))
  /\ phd.dirs[ID20] = RunningContext(ID20, <<"2", "0">>)
  /\ doctor.report = [panicked |-> FALSE, warnings |-> 5, errors |-> 0, code |-> 0]

\* C19: a resolved context is a listed context: for every root and every
\* selector (the empty text, `.`, `..`, a selector with a separator and an
\* absolute path included), when the resolution succeeds the appid returned is
\* one of the appids the listing of the root gives, and the directory returned
\* is the subdirectory root/appid.
C19_ResolvedIsListed ==
  (resolveStage = "resolved" /\ resolved.kind = "Ok") =>
    /\ resolved.appid \in ListedContexts
    /\ resolved.app_dir = RuntimeRoot \o <<SLASH>> \o resolved.appid

\* C20: no context is left after a launch that failed: when an init ends
\* without its child having run to its end (the child could not be launched,
\* a file of the context could not be written, the compat data path is not
\* set) after it created root/appid, root/appid is gone once init has ended;
\* an init that has ended has left no context directory.
C20_NoOrphanedContext ==
  \A p \in InitProcs :
    (/\ inits[p].pc = "exited"
     /\ ~ChildEnded(p)
     /\ \A q \in InitProcs \ {p} : inits[q].pc = "off") =>
      ~HasDir(phd, inits[p].appid)

\* C21: a running child keeps its context: in every interleaving of launches
\* (two launches of one app included), from the moment an init has written
\* the four files of its context until its own child has ended, root/appid
\* exists and holds started_at, exe, pfx and env; the removal made by another
\* init does not take it away.
FilesWritten(p) == inits[p].pc \in {"env_written", "waiting"}

HoldsContext(root, appid) ==
  /\ HasDir(root, appid)
  /\ IsSome(root.dirs[appid].started_at)
  /\ IsSome(root.dirs[appid].exe)
  /\ IsSome(root.dirs[appid].pfx)
  /\ IsSome(root.dirs[appid].env)

C21_RunningChildKeepsContext ==
  \A p \in InitProcs : FilesWritten(p) => HoldsContext(phd, inits[p].appid)

====
